---------------------------- MODULE Spec2Model ----------------------------
(***************************************************************************)
(* Gaps Solitaire: the rule engine of src/utils/gameRules.ts and the game  *)
(* state held by the App component of src/App.tsx.                         *)
(*                                                                         *)
(* A grid is a function 0..3 -> (0..12 -> cell), indexed from 0 as in the  *)
(* source.  A cell is a card record or the record null (a hole).  Arrays   *)
(* that the source builds by push (the deck, cardsToShuffle, fillItems,    *)
(* positionsToFill, history) are sequences; a[i] of the source is          *)
(* At(a, i) here.                                                          *)
(***************************************************************************)
EXTENDS Integers, Sequences, FiniteSets, TLC

VARIABLES
    grid,               \* App: grid (a 4x13 grid, or <<>> before the first deal)
    history,            \* App: history, a sequence of HistoryItem
    moves,              \* App: moves
    shufflesRemaining,  \* App: shufflesRemaining
    lastMovedCardId,    \* App: lastMovedCardId (0 is null)
    isWin,              \* App: isWin
    isGameOver,         \* App: isGameOver
    showStuckModal,     \* App: showStuckModal
    endGamePhase,       \* App: endGamePhase
    isDealing,          \* App: isDealing
    draggedItem,        \* App: draggedItem (NoDrag is null)
    moveTimer,          \* App: moveTimer
    speedScore,         \* App: speedScore
    arg,                \* the grid handed to a rule-engine call (SpecRules)
    ret,                \* what the rule-engine call returned (SpecRules)
    store               \* the arrays behind grid and history as objects (SpecStore)

vars == <<grid, history, moves, shufflesRemaining, lastMovedCardId, isWin,
          isGameOver, showStuckModal, endGamePhase, isDealing, draggedItem,
          moveTimer, speedScore, arg, ret, store>>

gameVars == <<grid, history, moves, shufflesRemaining, lastMovedCardId, isWin,
              isGameOver, showStuckModal, endGamePhase, isDealing, draggedItem,
              moveTimer, speedScore>>

---------------------------------------------------------------------------
(* Bounds of the model and constants of the program.                       *)

\* Math.random() is drawn from {0/RandomDen, ..., (RandomDen-1)/RandomDen}.
RandomDen == 2

\* Executed moves per game considered (the moves counter is unbounded).
MaxMoves == 3

NumRows == 4

NumCols == 13

InitialShuffles == 2

\* setMoveTimer(50): the timer bar a committed move fills.
FullTimer == 50

---------------------------------------------------------------------------
(* Cards.                                                                  *)

RANKS == <<"2", "3", "4", "5", "6", "7", "8", "9", "0", "J", "Q", "K", "A">>

SUITS == <<"H", "D", "C", "S">>

\* enum Rank: the members by name.
Rank ==
    [TWO |-> "2", THREE |-> "3", FOUR |-> "4", FIVE |-> "5", SIX |-> "6",
     SEVEN |-> "7", EIGHT |-> "8", NINE |-> "9", TEN |-> "0", JACK |-> "J",
     QUEEN |-> "Q", KING |-> "K", ACE |-> "A"]

TWO == "2"

KING == "K"

ACE == "A"

\* A hole: the source's null cell.
null == [suit |-> "", rank |-> "", id |-> 0]

Rows == 0 .. (NumRows - 1)

Cols == 0 .. (NumCols - 1)

\* a[i] of a source array held as a sequence.
At(a, i) == a[i + 1]

\* Array.prototype.indexOf searching from index i: the first index holding x, or -1.
RECURSIVE IndexFrom(_, _, _)
IndexFrom(a, x, i) ==
    IF i >= Len(a) THEN -1
    ELSE IF At(a, i) = x THEN i
    ELSE IndexFrom(a, x, i + 1)

IndexOf(a, x) == IndexFrom(a, x, 0)

(* getRankValue is RANKS.indexOf(rank) + 2.  The values are tabulated once   *)
(* for the ranks of RANKS; any other argument is computed directly.          *)
RankValueTable == [k \in 1 .. Len(RANKS) |-> IndexOf(RANKS, RANKS[k]) + 2]

RankNumber ==
    [rank \in {RANKS[k] : k \in 1 .. Len(RANKS)} |->
        RankValueTable[CHOOSE k \in 1 .. Len(RANKS) : RANKS[k] = rank]]

\* A rank value that counts from 1: RANKS.indexOf(rank) + 1.
getRankValueFromOne(rank) == IndexOf(RANKS, rank) + 1

getRankValue(rank) ==
    IF rank \in DOMAIN RankNumber THEN RankNumber[rank]
    ELSE IndexOf(RANKS, rank) + 2

(* generateDeck: suits outermost, ranks innermost.  The id of the source is *)
(* rank, suit and a random suffix whose only role is to be unique; here it  *)
(* is the card's number in generation order.  code and image are derived    *)
(* from suit and rank and are not read by any rule.                         *)
generateDeck ==
    [k \in 1 .. (Len(SUITS) * Len(RANKS)) |->
        [suit |-> SUITS[((k - 1) \div Len(RANKS)) + 1],
         rank |-> RANKS[((k - 1) % Len(RANKS)) + 1],
         id   |-> k]]

---------------------------------------------------------------------------
(* The random source.  A source answers the k-th call of Math.random()     *)
(* with a fraction <<num, den>>, 0 <= num < den.  It first replays the     *)
(* fractions of pre, then alternates a/RandomDen and b/RandomDen.           *)

Draw(src, k) ==
    IF k <= Len(src.pre) THEN src.pre[k]
    ELSE <<IF k % 2 = 1 THEN src.a ELSE src.b, RandomDen>>

\* Math.floor(Math.random() * n) for the draw u.
RandomInt(u, n) == (u[1] * n) \div u[2]

AlternatingSources ==
    {[pre |-> <<>>, a |-> x, b |-> y] : x \in 0 .. (RandomDen - 1), y \in 0 .. (RandomDen - 1)}

\* [a[i], a[j]] = [a[j], a[i]]
Swap(a, i, j) == [a EXCEPT ![i + 1] = a[j + 1], ![j + 1] = a[i + 1]]

(* The iterations i = hi, hi - 1, ..., lo of the Fisher-Yates loop on a,    *)
(* with the draws k, k+1, ... of src: one iteration is                     *)
(* j = Math.floor(Math.random() * (i + 1)) and the swap of a[i] and a[j];  *)
(* a longer span is its upper half followed by its lower half.  (The loop  *)
(* runs only on a non-empty array; the test of a keeps the evaluation of a *)
(* in step with the loop.)                                                  *)
RECURSIVE FisherYatesSpan(_, _, _, _, _)
FisherYatesSpan(a, hi, lo, src, k) ==
    IF hi < lo \/ a = <<>> THEN a
    ELSE IF hi = lo THEN Swap(a, hi, RandomInt(Draw(src, k), hi + 1))
    ELSE LET mid == (hi + lo + 1) \div 2
         IN  FisherYatesSpan(FisherYatesSpan(a, hi, mid, src, k),
                             mid - 1, lo, src, k + (hi - mid + 1))

(* The Fisher-Yates loop shared by shuffleDeck and the two shuffles of     *)
(* reshuffleBoard: for (i = a.length - 1; i > 0; i--), started at index i  *)
(* with the draws k, k+1, ... of src.                                       *)
FisherYates(a, i, src, k) == FisherYatesSpan(a, i, 1, src, k)

\* The number of draws FisherYates takes on an array of length n.
DrawsFor(n) == IF n > 1 THEN n - 1 ELSE 0

shuffleDeck(deck, src) == FisherYates(deck, Len(deck) - 1, src, 1)

---------------------------------------------------------------------------
(* initializeBoard.  Cell (i, j) receives the (13 i + j + 1)-th card       *)
(* popped from the end of the shuffled deck; an Ace becomes a hole.  When  *)
(* the deck runs out the source throws; the result is then the record      *)
(* Thrown.                                                                  *)

Thrown == [error |-> "Deck ran out!"]

\* A deal that leaves the Aces on the board.
DealFromKeepingAces(deck) ==
    IF Len(deck) < NumRows * NumCols THEN Thrown
    ELSE [i \in Rows |-> [j \in Cols |-> deck[Len(deck) - (NumCols * i + j)]]]

\* A deal that throws on every deck that does not hold exactly 52 cards.
DealFromExactCount(deck) ==
    IF Len(deck) # NumRows * NumCols THEN Thrown
    ELSE [i \in Rows |-> [j \in Cols |->
            LET card == deck[Len(deck) - (NumCols * i + j)]
            IN  IF card.rank = ACE THEN null ELSE card]]

DealFrom(deck) ==
    IF Len(deck) < NumRows * NumCols THEN Thrown
    ELSE [i \in Rows |-> [j \in Cols |->
            LET card == deck[Len(deck) - (NumCols * i + j)]
            IN  IF card.rank = ACE THEN null ELSE card]]

initializeBoard(src) == DealFrom(shuffleDeck(generateDeck, src))

---------------------------------------------------------------------------
(* canPlaceCard: the five rules in the order of the source.                *)

\* canPlaceCard without the rule that nothing follows a King.
canPlaceCardAfterKing(card, targetRow, targetCol, g) ==
    IF targetCol = 0 THEN card.rank = TWO
    ELSE LET leftNeighbor == g[targetRow][targetCol - 1]
         IN  IF leftNeighbor = null THEN FALSE
             ELSE IF card.suit # leftNeighbor.suit THEN FALSE
             ELSE getRankValue(card.rank) = getRankValue(leftNeighbor.rank) + 1

\* canPlaceCard whose column-0 rule also asks for a hole at the target.
canPlaceCardOnHoleOnly(card, targetRow, targetCol, g) ==
    IF targetCol = 0 THEN card.rank = TWO /\ g[targetRow][0] = null
    ELSE LET leftNeighbor == g[targetRow][targetCol - 1]
         IN  IF leftNeighbor = null THEN FALSE
             ELSE IF leftNeighbor.rank = KING THEN FALSE
             ELSE IF card.suit # leftNeighbor.suit THEN FALSE
             ELSE getRankValue(card.rank) = getRankValue(leftNeighbor.rank) + 1

\* canPlaceCard that accepts every card right of a hole.
canPlaceCardRightOfHole(card, targetRow, targetCol, g) ==
    IF targetCol = 0 THEN card.rank = TWO
    ELSE LET leftNeighbor == g[targetRow][targetCol - 1]
         IN  IF leftNeighbor = null THEN TRUE
             ELSE IF leftNeighbor.rank = KING THEN FALSE
             ELSE IF card.suit # leftNeighbor.suit THEN FALSE
             ELSE getRankValue(card.rank) = getRankValue(leftNeighbor.rank) + 1

canPlaceCard(card, targetRow, targetCol, g) ==
    IF targetCol = 0 THEN card.rank = TWO
    ELSE LET leftNeighbor == g[targetRow][targetCol - 1]
         IN  IF leftNeighbor = null THEN FALSE
             ELSE IF leftNeighbor.rank = KING THEN FALSE
             ELSE IF card.suit # leftNeighbor.suit THEN FALSE
             ELSE getRankValue(card.rank) = getRankValue(leftNeighbor.rank) + 1

---------------------------------------------------------------------------
(* isRowComplete and checkWinCondition.                                    *)

\* The for loop of isRowComplete from index i on, with its early returns.
RECURSIVE RowLoopComplete(_, _, _)
RowLoopComplete(row, suit, i) ==
    IF i >= 12 THEN TRUE
    ELSE LET cell == row[i]
         IN  IF cell = null THEN FALSE
             ELSE IF cell.suit # suit THEN FALSE
             ELSE IF getRankValue(cell.rank) # i + 2 THEN FALSE
             ELSE RowLoopComplete(row, suit, i + 1)

\* isRowComplete without the test of the hole at column 12.
isRowCompleteIgnoringLast(row) ==
    IF row[0] = null \/ row[0].rank # TWO THEN FALSE
    ELSE RowLoopComplete(row, row[0].suit, 0)

isRowComplete(row) ==
    IF row[12] # null THEN FALSE
    ELSE IF row[0] = null \/ row[0].rank # TWO THEN FALSE
    ELSE RowLoopComplete(row, row[0].suit, 0)

checkWinCondition(g) == \A r \in DOMAIN g : isRowComplete(g[r])

---------------------------------------------------------------------------
(* getLockedCards and calculateScore: two scans written independently.     *)

\* row.length
RowLength(row) == Cardinality(DOMAIN row)

\* The inner loop of getLockedCards from index i on; break returns locked.
RECURSIVE LockedLoop(_, _, _, _, _)
LockedLoop(row, i, currentRankVal, currentSuit, locked) ==
    IF i >= RowLength(row) THEN locked
    ELSE LET cell == row[i]
         IN  IF cell = null THEN locked
             ELSE IF cell.suit # currentSuit THEN locked
             ELSE LET val == getRankValue(cell.rank)
                  IN  IF val = currentRankVal + 1
                      THEN LockedLoop(row, i + 1, val, currentSuit, locked \cup {cell.id})
                      ELSE locked

\* A lock scan that starts at whatever card column 0 holds.
LockedInRowAnyStart(row) ==
    IF row[0] = null THEN {}
    ELSE LockedLoop(row, 1, getRankValue(row[0].rank), row[0].suit, {row[0].id})

\* One iteration of the outer loop of getLockedCards: the ids row adds.
LockedInRow(row) ==
    IF row[0] = null \/ row[0].rank # TWO THEN {}
    ELSE LockedLoop(row, 1, 2, row[0].suit, {row[0].id})

getLockedCards(g) == UNION {LockedInRow(g[r]) : r \in DOMAIN g}

\* The inner loop of calculateScore from index i on; break returns score.
RECURSIVE ScoreLoop(_, _, _, _, _)
ScoreLoop(row, i, currentRankVal, currentSuit, score) ==
    IF i >= RowLength(row) THEN score
    ELSE LET cell == row[i]
         IN  IF cell = null THEN score
             ELSE IF cell.suit # currentSuit THEN score
             ELSE LET val == getRankValue(cell.rank)
                  IN  IF val = currentRankVal + 1
                      THEN ScoreLoop(row, i + 1, val, currentSuit, score + val)
                      ELSE score

\* A score scan that does not count the TWO at column 0.
ScoreRowWithoutTwo(row, score) ==
    IF row[0] = null \/ row[0].rank # TWO THEN score
    ELSE ScoreLoop(row, 1, 2, row[0].suit, score)

\* One iteration of the outer loop of calculateScore, entered with score.
ScoreRow(row, score) ==
    IF row[0] = null \/ row[0].rank # TWO THEN score
    ELSE ScoreLoop(row, 1, 2, row[0].suit, score + 2)

(* The outer loop of calculateScore from row r on: the iteration of row r   *)
(* is run to its end, and the loop goes on with the score it leaves.       *)
RECURSIVE ScoreRows(_, _, _)
ScoreRows(g, r, score) ==
    IF r \notin DOMAIN g THEN score
    ELSE CHOOSE total \in {ScoreRows(g, r + 1, sofar) :
                               sofar \in {ScoreRow(g[r], score)}} : TRUE

calculateScore(g) == ScoreRows(g, 0, 0)

---------------------------------------------------------------------------
(* reshuffleBoard.  Step 1 walks the cells row by row and column by column *)
(* with the state st = [newGrid, cardsToShuffle, positionsToFill,          *)
(* isSequence]; steps 2 to 4 shuffle cardsToShuffle, pad it with holes,    *)
(* shuffle fillItems and write fillItems[idx] to positionsToFill[idx].     *)

\* cardsToShuffle.push(cell) if cell; positionsToFill.push({r, c}); newGrid[r][c] = null
Collect(st, r, c) ==
    LET cell == st.newGrid[r][c]
    IN  [st EXCEPT
            !.cardsToShuffle = IF cell # null THEN Append(@, cell) ELSE @,
            !.positionsToFill = Append(@, [r |-> r, c |-> c]),
            !.newGrid = [@ EXCEPT ![r][c] = null]]

\* A row start that never clears isSequence.
RowStartAlwaysInSequence(st, r) == [st EXCEPT !.isSequence = TRUE]

\* let isSequence = true; if (!newGrid[r][0] || newGrid[r][0].rank !== TWO) isSequence = false
RowStart(st, r) ==
    [st EXCEPT !.isSequence =
        ~(st.newGrid[r][0] = null \/ st.newGrid[r][0].rank # TWO)]

\* A continuation test that accepts a card one rank below its left neighbour.
ContinuesDownwards(prev, curr) ==
    /\ curr # null
    /\ prev # null
    /\ curr.suit = prev.suit
    /\ getRankValue(curr.rank) = getRankValue(prev.rank) - 1

\* curr && prev && curr.suit === prev.suit && rank(curr) === rank(prev) + 1
Continues(prev, curr) ==
    /\ curr # null
    /\ prev # null
    /\ curr.suit = prev.suit
    /\ getRankValue(curr.rank) = getRankValue(prev.rank) + 1

\* The column loop of step 1 in row r from column c on.
RECURSIVE ScanCols(_, _, _)
ScanCols(st, r, c) ==
    IF c >= NumCols THEN st
    ELSE IF st.isSequence
    THEN IF c = 0
         THEN ScanCols(st, r, c + 1)  \* the inner "if (!isSequence)" cannot hold
         ELSE IF Continues(st.newGrid[r][c - 1], st.newGrid[r][c])
              THEN ScanCols(st, r, c + 1)
              ELSE ScanCols(Collect([st EXCEPT !.isSequence = FALSE], r, c), r, c + 1)
    ELSE ScanCols(Collect(st, r, c), r, c + 1)

(* The row loop of step 1 from row r on: the column loop of row r is run   *)
(* to its end, and the row loop goes on from the state it leaves.          *)
RECURSIVE ScanRows(_, _)
ScanRows(st, r) ==
    IF r >= NumRows THEN st
    ELSE CHOOSE done \in {ScanRows(after, r + 1) :
                              after \in {ScanCols(RowStart(st, r), r, 0)}} : TRUE

\* Step 1 on currentGrid.
ReshuffleScan(currentGrid) ==
    ScanRows([newGrid |-> currentGrid, cardsToShuffle |-> <<>>,
              positionsToFill |-> <<>>, isSequence |-> TRUE], 0)

\* while (fillItems.length < n) fillItems.push(null)
PadWithNull(fillItems, n) ==
    [k \in 1 .. (IF n > Len(fillItems) THEN n ELSE Len(fillItems)) |->
        IF k <= Len(fillItems) THEN fillItems[k] ELSE null]

\* An assignment that writes fillItems[0] to every collected cell.
AssignBackFirstItem(newGrid, positionsToFill, fillItems) ==
    [r \in DOMAIN newGrid |-> [c \in DOMAIN newGrid[r] |->
        IF \E idx \in 0 .. (Len(positionsToFill) - 1) :
               At(positionsToFill, idx) = [r |-> r, c |-> c]
        THEN At(fillItems, 0)
        ELSE newGrid[r][c]]]

(* positionsToFill.forEach((pos, idx) => newGrid[pos.r][pos.c] = fillItems[idx]): *)
(* a cell named by positionsToFill ends with the item of the last idx that *)
(* names it, every other cell is left as it is.                            *)
AssignBack(newGrid, positionsToFill, fillItems) ==
    [r \in DOMAIN newGrid |-> [c \in DOMAIN newGrid[r] |->
        LET named == {idx \in 0 .. (Len(positionsToFill) - 1) :
                        At(positionsToFill, idx) = [r |-> r, c |-> c]}
        IN  IF named = {} THEN newGrid[r][c]
            ELSE At(fillItems, CHOOSE idx \in named : \A other \in named : other <= idx)]]

reshuffleBoard(currentGrid, src) ==
    LET st == ReshuffleScan(currentGrid)
        cardsToShuffle ==
            FisherYates(st.cardsToShuffle, Len(st.cardsToShuffle) - 1, src, 1)
        padded == PadWithNull(cardsToShuffle, Len(st.positionsToFill))
        fillItems ==
            FisherYates(padded, Len(padded) - 1, src,
                        1 + DrawsFor(Len(st.cardsToShuffle)))
    IN  AssignBack(st.newGrid, st.positionsToFill, fillItems)

---------------------------------------------------------------------------
(* Boards and random sources the checks start from.                        *)

Positions == Rows \X Cols

\* The row-major number of cell (r, c), as flatIndex in App.
FlatIndex(r, c) == r * NumCols + c

\* The solved board: row r holds TWO..KING of SUITS[r] and a hole at column 12.
WinBoard ==
    [r \in Rows |-> [c \in Cols |->
        IF c = NumCols - 1 THEN null ELSE generateDeck[FlatIndex(r, c) + 1]]]

(* WinBoard with the cells at or beyond column keep[r] of every row r       *)
(* rotated by shift places among themselves (in row-major order): a board   *)
(* of 48 distinct cards and 4 holes whose row r keeps its first keep[r]     *)
(* cards.                                                                    *)
FreeCells(keep) ==
    {p \in Positions : p[2] >= keep[p[1] + 1]}

RankAmong(S, p) ==
    Cardinality({q \in S : FlatIndex(q[1], q[2]) < FlatIndex(p[1], p[2])})

Rotated(keep, shift) ==
    LET free == FreeCells(keep)
        n == Cardinality(free)
        from(p) == CHOOSE q \in free : RankAmong(free, q) = (RankAmong(free, p) + shift) % n
    IN  [r \in Rows |-> [c \in Cols |->
            IF <<r, c>> \in free THEN WinBoard[from(<<r, c>>)[1]][from(<<r, c>>)[2]]
            ELSE WinBoard[r][c]]]

\* A board in mid-game: locked runs of 3, 0, 7 and 12 cards.
MidBoard == Rotated(<<3, 0, 7, 12>>, 5)

\* WinBoard with the cells (r, c1) and (r, c2) exchanged.
Exchanged(r, c1, c2) ==
    [WinBoard EXCEPT ![r][c1] = WinBoard[r][c2], ![r][c2] = WinBoard[r][c1]]

\* One move from the solved board: the King of row 3 lies right of its hole.
NearWinBoard == Exchanged(3, 11, 12)

(* One move from a board without an active hole that is not solved: the    *)
(* King of row 2 lies right of its hole, and row 3 starts 3, 2.            *)
StuckSoonBoard ==
    [Exchanged(2, 11, 12) EXCEPT ![3][0] = WinBoard[3][1], ![3][1] = WinBoard[3][0]]

DealtBoards == {WinBoard, MidBoard, NearWinBoard, StuckSoonBoard}

(* The random source under which initializeBoard deals board: the deck    *)
(* that deals it (hole number n, in row-major order, is the Ace of         *)
(* SUITS[n]) and, for each step of the Fisher-Yates loop, the draw j/(i+1) *)
(* that brings that deck's card to index i.                                 *)
DeckFor(board) ==
    LET holes == {p \in Positions : board[p[1]][p[2]] = null}
        cellOf(f) == board[f \div NumCols][f % NumCols]
        aceOf(f) ==
            generateDeck[(RankAmong(holes, <<f \div NumCols, f % NumCols>>) + 1) * Len(RANKS)]
    IN  [k \in 1 .. (NumRows * NumCols) |->
            LET f == NumRows * NumCols - k
            IN  IF cellOf(f) = null THEN aceOf(f) ELSE cellOf(f)]

RECURSIVE ChoicesFor(_, _, _, _)
ChoicesFor(a, target, i, acc) ==
    IF i > 0
    THEN LET j == IndexOf(a, At(target, i))
         IN  ChoicesFor(Swap(a, i, j), target, i - 1, Append(acc, <<j, i + 1>>))
    ELSE acc

DealSource(board) ==
    [pre |-> ChoicesFor(generateDeck, DeckFor(board), Len(generateDeck) - 1, <<>>),
     a |-> 0, b |-> 0]

---------------------------------------------------------------------------
(* The state of App after construction (the useState initial values).      *)

NoGrid == <<>>

NoDrag == [card |-> null, rowIndex |-> -1, colIndex |-> -1]

\* No array has been allocated.
NoStore == [objects |-> <<>>, grid |-> 0, history |-> <<>>]

AppConstructed ==
    /\ grid = NoGrid
    /\ history = <<>>
    /\ moves = 0
    /\ shufflesRemaining = InitialShuffles
    /\ lastMovedCardId = 0
    /\ isWin = FALSE
    /\ isGameOver = FALSE
    /\ showStuckModal = FALSE
    /\ endGamePhase = "idle"
    /\ isDealing = FALSE
    /\ draggedItem = NoDrag
    /\ moveTimer = 0
    /\ speedScore = 0

---------------------------------------------------------------------------
(* SpecRules: the rule engine called on its own.  arg is the grid handed   *)
(* to the engine: any base board with one cell recast to a hole or to a    *)
(* probe card (a recast card keeps its id; a card put into a hole gets a   *)
(* new one), or no grid at all for initializeBoard.  ret records the       *)
(* function called, what it returned and, for reshuffleBoard, the          *)
(* positionsToFill it collected on the way.                                 *)

NoCall == [fn |-> "none", value |-> NoGrid, free |-> <<>>]

\* The id given to a card that is not a card of generateDeck.
NewId == Len(generateDeck) + 1

CellValues ==
    {null} \cup {[suit |-> generateDeck[k].suit, rank |-> generateDeck[k].rank, id |-> 0] :
                    k \in 1 .. Len(generateDeck)}

\* The suits of the cards a cell is recast to.
ProbeSuits == {"H", "D"}

ProbeValues == {v \in CellValues : v = null \/ v.suit \in ProbeSuits}

Recast(g, r, c, v) ==
    [g EXCEPT ![r][c] =
        IF v = null THEN null
        ELSE [v EXCEPT !.id = IF g[r][c] = null THEN NewId ELSE g[r][c].id]]

BaseBoards == {WinBoard, MidBoard}

InputGrids ==
    {Recast(g, p[1], p[2], v) : g \in BaseBoards, p \in Positions, v \in ProbeValues}

DealSources == AlternatingSources \cup {DealSource(g) : g \in DealtBoards}

\* The cards a caller may try to place: every card of the deck.
AllCards == {generateDeck[k] : k \in 1 .. Len(generateDeck)}

InitRules ==
    /\ AppConstructed
    /\ arg \in InputGrids \cup {NoGrid}
    /\ ret = NoCall
    /\ store = NoStore

CallInitializeBoard ==
    /\ arg = NoGrid
    /\ ret.fn = "none"
    /\ \E src \in DealSources :
          ret' = [fn |-> "initializeBoard", value |-> initializeBoard(src), free |-> <<>>]
    /\ UNCHANGED <<arg, gameVars, store>>

\* canPlaceCard asked for every card and every cell of arg: the triples accepted.
CallCanPlaceCard ==
    /\ arg # NoGrid
    /\ ret.fn = "none"
    /\ ret' = [fn |-> "canPlaceCard",
               value |-> {t \in AllCards \X Rows \X Cols : canPlaceCard(t[1], t[2], t[3], arg)},
               free |-> <<>>]
    /\ UNCHANGED <<arg, gameVars, store>>

CallCheckWinCondition ==
    /\ arg # NoGrid
    /\ ret.fn = "none"
    /\ ret' = [fn |-> "checkWinCondition", value |-> checkWinCondition(arg), free |-> <<>>]
    /\ UNCHANGED <<arg, gameVars, store>>

CallGetLockedCards ==
    /\ arg # NoGrid
    /\ ret.fn = "none"
    /\ ret' = [fn |-> "getLockedCards", value |-> getLockedCards(arg), free |-> <<>>]
    /\ UNCHANGED <<arg, gameVars, store>>

CallCalculateScore ==
    /\ arg # NoGrid
    /\ ret.fn = "none"
    /\ ret' = [fn |-> "calculateScore", value |-> calculateScore(arg), free |-> <<>>]
    /\ UNCHANGED <<arg, gameVars, store>>

CallReshuffleBoard ==
    /\ arg # NoGrid
    /\ ret.fn = "none"
    /\ \E src \in AlternatingSources :
          ret' = [fn |-> "reshuffleBoard",
                  value |-> reshuffleBoard(arg, src),
                  free |-> ReshuffleScan(arg).positionsToFill]
    /\ UNCHANGED <<arg, gameVars, store>>

\* getRankValue asked for two ranks, as a caller comparing two cards does.
CallGetRankValue ==
    /\ arg = NoGrid
    /\ ret.fn = "none"
    /\ \E a \in DOMAIN RankNumber : \E b \in DOMAIN RankNumber :
          ret' = [fn |-> "getRankValue",
                  value |-> <<getRankValue(a), getRankValue(b)>>,
                  free |-> <<a, b>>]
    /\ UNCHANGED <<arg, gameVars, store>>

NextRules ==
    \/ CallGetRankValue
    \/ CallInitializeBoard
    \/ CallCanPlaceCard
    \/ CallCheckWinCondition
    \/ CallGetLockedCards
    \/ CallCalculateScore
    \/ CallReshuffleBoard

SpecRules == InitRules /\ [][NextRules]_vars

---------------------------------------------------------------------------
(* Properties of the rule engine (checked under SpecRules).                *)

IsGrid(g) == DOMAIN g = Rows /\ \A r \in Rows : DOMAIN g[r] = Cols

Holes(g) == {p \in Positions : g[p[1]][p[2]] = null}

CardCells(g) == {p \in Positions : g[p[1]][p[2]] # null}

\* The cells of g that hold a card of this suit and rank.
CellsOf(g, suit, rank) ==
    {p \in Positions : g[p[1]][p[2]].suit = suit /\ g[p[1]][p[2]].rank = rank}

SuitSet == {SUITS[k] : k \in 1 .. Len(SUITS)}

RankSet == {RANKS[k] : k \in 1 .. Len(RANKS)}

\* 4 rows of 13 cells, 4 holes, and every non-Ace card exactly once.
IsDealtBoard(g) ==
    /\ IsGrid(g)
    /\ Cardinality(Holes(g)) = 4
    /\ Cardinality(CardCells(g)) = 48
    /\ \A suit \in SuitSet : \A rank \in RankSet :
          Cardinality(CellsOf(g, suit, rank)) = IF rank = ACE THEN 0 ELSE 1

\* C1: initializeBoard always returns a 4x13 grid holding exactly 4 holes and
\* the 48 non-Ace cards, each exactly once, and no Ace.
C1_DealIsFullDeckWithoutAces ==
    ret.fn = "initializeBoard" => IsDealtBoard(ret.value)

\* C1 witness: a deal has been made whose holes are not all in column 12.
C1_Witness ==
    /\ ret.fn = "initializeBoard"
    /\ IsDealtBoard(ret.value)
    /\ \E p \in Holes(ret.value) : p[2] < NumCols - 1

\* The left neighbour is a card, not a King, of card's suit and one rank below.
FitsAfterLeft(card, row, col, g) ==
    LET left == g[row][col - 1]
    IN  /\ left # null
        /\ left.rank # KING
        /\ left.suit = card.suit
        /\ getRankValue(left.rank) = getRankValue(card.rank) - 1

\* C2: for every grid, card and target column col > 0, canPlaceCard is true
\* exactly when the left neighbour is a non-King card of the same suit whose
\* rank value is one less than the card's.
C2_AdjacencyLaw ==
    ret.fn = "canPlaceCard" =>
        \A card \in AllCards : \A row \in Rows : \A col \in Cols \ {0} :
            (<<card, row, col>> \in ret.value) <=> FitsAfterLeft(card, row, col, arg)

\* C2 witness: canPlaceCard was asked on a grid with a hole right of a King,
\* and accepted some card at some column beyond 0.
C2_Witness ==
    /\ ret.fn = "canPlaceCard"
    /\ \E row \in Rows : \E col \in Cols \ {0} :
          /\ arg[row][col - 1].rank = KING
          /\ arg[row][col] = null
    /\ \E t \in ret.value : t[3] > 0

\* C3: at column 0 canPlaceCard is (card.rank = TWO), whatever the grid holds
\* and whatever the card's suit.
C3_ColumnZeroTakesAnyTwo ==
    ret.fn = "canPlaceCard" =>
        \A card \in AllCards : \A row \in Rows :
            (<<card, row, 0>> \in ret.value) = (card.rank = TWO)

\* C3 witness: canPlaceCard was asked on a grid whose column 0 holds a hole
\* in one row and a card in another, and accepted one TWO of another suit at
\* both.
C3_Witness ==
    /\ ret.fn = "canPlaceCard"
    /\ \E r1 \in Rows : \E r2 \in Rows : \E card \in AllCards :
          /\ arg[r1][0] = null
          /\ arg[r2][0] # null
          /\ arg[r2][0].suit # card.suit
          /\ <<card, r1, 0>> \in ret.value
          /\ <<card, r2, 0>> \in ret.value

(* The length of the longest prefix of row that holds, at every index i,   *)
(* a card of the suit of row[0] with rank value i + 2.                      *)
RunLength(row) ==
    LET off == {i \in Cols : \/ row[i] = null
                             \/ row[i].suit # row[0].suit
                             \/ getRankValue(row[i].rank) # i + 2}
    IN  IF off = {} THEN NumCols
        ELSE CHOOSE i \in off : \A k \in off : i <= k

\* The cells of the locked prefixes of g.
RunCells(g) ==
    UNION {{<<r, c>> : c \in 0 .. (RunLength(g[r]) - 1)} : r \in Rows}

\* C4: getLockedCards returns exactly the ids of, per row, the maximal prefix
\* from column 0 that starts with a TWO and rises by one in that TWO's suit;
\* nothing at or beyond the first break is locked.
C4_LockedIsMaximalPrefix ==
    ret.fn = "getLockedCards" =>
        ret.value = {arg[p[1]][p[2]].id : p \in RunCells(arg)}

\* C4 witness: getLockedCards was asked on a grid with a locked run that
\* breaks before a card which continues the run's suit and rank one cell
\* later, and with a row without a TWO at column 0.
C4_Witness ==
    /\ ret.fn = "getLockedCards"
    /\ \E r \in Rows : \E c \in 1 .. (NumCols - 2) :
          /\ RunLength(arg[r]) = c
          /\ arg[r][c + 1] # null
          /\ arg[r][c + 1].suit = arg[r][0].suit
          /\ getRankValue(arg[r][c + 1].rank) = c + 3
          /\ arg[r][c + 1].id \notin ret.value
    /\ \E r \in Rows : arg[r][0] # null /\ arg[r][0].rank # TWO

\* The sum of the rank values of the cards of row whose id is in ids, taken
\* over the columns c, c+1, ...
RECURSIVE SumRanksInRow(_, _, _)
SumRanksInRow(row, ids, c) ==
    IF c >= NumCols THEN 0
    ELSE (IF row[c] # null /\ row[c].id \in ids THEN getRankValue(row[c].rank) ELSE 0)
         + SumRanksInRow(row, ids, c + 1)

\* The same sum over the rows r, r+1, ... of g.
RECURSIVE SumRanksFrom(_, _, _)
SumRanksFrom(g, ids, r) ==
    IF r >= NumRows THEN 0
    ELSE SumRanksInRow(g[r], ids, 0) + SumRanksFrom(g, ids, r + 1)

\* C5: calculateScore equals the sum of the rank values of the cards that
\* getLockedCards reports.
C5_ScoreIsSumOfLocked ==
    ret.fn = "calculateScore" =>
        ret.value = SumRanksFrom(arg, getLockedCards(arg), 0)

\* C5 witness: calculateScore gave a positive score on a grid in which two
\* rows are cut at different columns.
C5_Witness ==
    /\ ret.fn = "calculateScore"
    /\ ret.value > 0
    /\ \E r1 \in Rows : \E r2 \in Rows :
          /\ RunLength(arg[r1]) > 0
          /\ RunLength(arg[r2]) > RunLength(arg[r1])
          /\ RunLength(arg[r2]) < NumCols - 1

\* Every row has a hole at column 12 and, at i in 0..11, a card of rank value
\* i + 2 in the suit of its column-0 card.
AllRowsInOrder(g) ==
    \A r \in Rows :
        /\ g[r][12] = null
        /\ \A i \in 0 .. 11 :
              /\ g[r][i] # null
              /\ getRankValue(g[r][i].rank) = i + 2
              /\ g[r][i].suit = g[r][0].suit

\* v put at p changes what the cell holds (its suit or rank, card or hole).
Changes(g, p, v) ==
    v.suit # g[p[1]][p[2]].suit \/ v.rank # g[p[1]][p[2]].rank

\* C6: checkWinCondition is true exactly when every row is TWO..KING of one
\* suit followed by a hole at column 12; from a winning grid, any change of a
\* single cell (a card's rank or suit, a hole before column 12, a card at
\* column 12) makes it false.
C6_WinExactness ==
    ret.fn = "checkWinCondition" =>
        /\ ret.value <=> AllRowsInOrder(arg)
        /\ ret.value =>
              \A p \in Positions : \A v \in CellValues :
                  Changes(arg, p, v) => ~checkWinCondition(Recast(arg, p[1], p[2], v))

\* C6 witness: checkWinCondition answered true.
C6_Witness ==
    ret.fn = "checkWinCondition" /\ ret.value

\* The number of cells of g that hold v.
Count(g, v) == Cardinality({p \in Positions : g[p[1]][p[2]] = v})

CellsIn(g) == {g[p[1]][p[2]] : p \in Positions}

\* C7: reshuffleBoard returns a grid with the same cards, each as often as
\* in its input, and the same number of holes, whatever the random draws.
C7_ReshuffleConserves ==
    ret.fn = "reshuffleBoard" =>
        /\ IsGrid(ret.value)
        /\ \A v \in CellsIn(arg) \cup CellsIn(ret.value) \cup {null} :
              Count(ret.value, v) = Count(arg, v)

\* C7 witness: a reshuffle that moved cards and holes.
C7_Witness ==
    /\ ret.fn = "reshuffleBoard"
    /\ Holes(ret.value) # Holes(arg)
    /\ \E p \in CardCells(arg) : ret.value[p[1]][p[2]] # arg[p[1]][p[2]]

\* The cells of g that hold a card getLockedCards reports.
LockedCells(g) ==
    LET locked == getLockedCards(g)
    IN  {p \in Positions : g[p[1]][p[2]] # null /\ g[p[1]][p[2]].id \in locked}

\* C8: every card locked before reshuffleBoard is at the same cell in the
\* grid it returns, whatever the random draws.
C8_ReshuffleKeepsLocked ==
    ret.fn = "reshuffleBoard" =>
        \A p \in LockedCells(arg) : ret.value[p[1]][p[2]] = arg[p[1]][p[2]]

\* C8 witness: a reshuffle of a grid with locked cards that changed the grid.
C8_Witness ==
    /\ ret.fn = "reshuffleBoard"
    /\ LockedCells(arg) # {}
    /\ ret.value # arg

\* The cells named by the positionsToFill that reshuffleBoard collected.
CollectedCells(positionsToFill) ==
    {<<positionsToFill[k].r, positionsToFill[k].c>> : k \in 1 .. Len(positionsToFill)}

\* C9: positionsToFill is exactly the complement of the cells of the locked
\* cards, and a row whose column 0 is a hole or not a TWO is collected whole.
C9_FreeIsComplementOfLocked ==
    ret.fn = "reshuffleBoard" =>
        LET collected == CollectedCells(ret.free)
        IN  /\ collected = Positions \ LockedCells(arg)
            /\ Len(ret.free) = Cardinality(collected)
            /\ \A r \in Rows :
                  (arg[r][0] = null \/ arg[r][0].rank # TWO) =>
                      \A c \in Cols : <<r, c>> \in collected

\* C9 witness: a reshuffle of a grid with a row whose column 0 is not a TWO
\* while its columns 1 and 2 continue each other, and a row with locked cards.
C9_Witness ==
    /\ ret.fn = "reshuffleBoard"
    /\ \E r \in Rows :
          /\ arg[r][0] = null \/ arg[r][0].rank # TWO
          /\ Continues(arg[r][1], arg[r][2])
          /\ <<r, 1>> \in CollectedCells(ret.free)
          /\ <<r, 2>> \in CollectedCells(ret.free)
    /\ LockedCells(arg) # {}

---------------------------------------------------------------------------
(* The game: the state of App and its handlers.  A handler is an operator  *)
(* from the state s it is called in (a record of the App state) to the     *)
(* state its set... calls leave.                                            *)

AppState ==
    [grid |-> grid, history |-> history, moves |-> moves,
     shufflesRemaining |-> shufflesRemaining, lastMovedCardId |-> lastMovedCardId,
     isWin |-> isWin, isGameOver |-> isGameOver, showStuckModal |-> showStuckModal,
     endGamePhase |-> endGamePhase, isDealing |-> isDealing, draggedItem |-> draggedItem,
     moveTimer |-> moveTimer, speedScore |-> speedScore]

\* The first and the last cell of S in row-major order.
FirstIn(S) == CHOOSE p \in S : \A q \in S : FlatIndex(p[1], p[2]) <= FlatIndex(q[1], q[2])

LastIn(S) == CHOOSE p \in S : \A q \in S : FlatIndex(q[1], q[2]) <= FlatIndex(p[1], p[2])

\* A lock set that is always empty.
lockedCardsNone(s) == {}

\* const lockedCards = useMemo(() => getLockedCards(grid), [grid])
lockedCards(s) == getLockedCards(s.grid)

\* A hole status that does not look for a King on the left.
getHoleStatusWithoutKing(g, rowIdx, colIdx) ==
    IF colIdx = 0 THEN "active"
    ELSE IF g[rowIdx][colIdx - 1] = null THEN "inactive"
    ELSE "active"

getHoleStatus(g, rowIdx, colIdx) ==
    IF colIdx = 0 THEN "active"
    ELSE LET cardsLeft == {i \in 0 .. (colIdx - 1) : g[rowIdx][i] # null}
             leftNonHoleCard ==
                 IF cardsLeft = {} THEN null
                 ELSE g[rowIdx][CHOOSE i \in cardsLeft : \A k \in cardsLeft : k <= i]
         IN  IF leftNonHoleCard # null /\ leftNonHoleCard.rank = KING THEN "dead"
             ELSE IF g[rowIdx][colIdx - 1] = null THEN "inactive"
             ELSE "active"

areAllHolesDead(g) ==
    IF g = NoGrid THEN FALSE
    ELSE Cardinality({p \in Positions :
                        g[p[1]][p[2]] = null /\ getHoleStatus(g, p[1], p[2]) = "active"}) = 0

triggerEndGame(s, win) ==
    IF s.endGamePhase # "idle" THEN s
    ELSE [s EXCEPT !.isWin = win, !.isGameOver = ~win, !.endGamePhase = "flipping"]

\* The condition under which the 'Shuffle Required' modal is rendered.
ShuffleRequiredShown(s) ==
    s.showStuckModal /\ ~s.isGameOver /\ s.endGamePhase = "idle"

\* A stuck effect that ends the game whatever shuffles are left.
StuckEffectWithoutShuffles(s) ==
    IF /\ ~s.isDealing
       /\ s.moves > 0
       /\ ~s.isWin
       /\ ~s.isGameOver
       /\ s.endGamePhase = "idle"
       /\ areAllHolesDead(s.grid)
    THEN triggerEndGame([s EXCEPT !.showStuckModal = FALSE], FALSE)
    ELSE [s EXCEPT !.showStuckModal = FALSE]

\* The effect "Check for Game Over or Stuck state", run once.
StuckEffect(s) ==
    IF /\ ~s.isDealing
       /\ s.moves > 0
       /\ ~s.isWin
       /\ ~s.isGameOver
       /\ s.endGamePhase = "idle"
       /\ areAllHolesDead(s.grid)
    THEN IF s.shufflesRemaining > 0
         THEN [s EXCEPT !.showStuckModal = TRUE]
         ELSE triggerEndGame([s EXCEPT !.showStuckModal = FALSE], FALSE)
    ELSE [s EXCEPT !.showStuckModal = FALSE]

(* The effect runs after every render in which one of its dependencies has *)
(* changed: it is run until it changes nothing (a second run at most).     *)
Rendered(s) ==
    LET once == StuckEffect(s)
    IN  IF once = s THEN s ELSE StuckEffect(once)

\* startDealingSequence, as far as the game state goes: setGrid, setIsDealing(true).
startDealingSequence(s, newGrid) ==
    [s EXCEPT !.grid = newGrid, !.isDealing = TRUE]

\* A new game that leaves isGameOver as it is.
startNewGameKeepingGameOver(s, newBoard) ==
    startDealingSequence(
        [s EXCEPT !.history = <<>>,
                  !.isWin = FALSE,
                  !.moves = 0,
                  !.shufflesRemaining = InitialShuffles,
                  !.draggedItem = NoDrag,
                  !.lastMovedCardId = 0,
                  !.showStuckModal = FALSE,
                  !.endGamePhase = "idle",
                  !.speedScore = 0,
                  !.moveTimer = 0],
        newBoard)

(* startNewGame; newBoard is the result of its call of initializeBoard.    *)
startNewGame(s, newBoard) ==
    startDealingSequence(
        [s EXCEPT !.history = <<>>,
                  !.isWin = FALSE,
                  !.moves = 0,
                  !.shufflesRemaining = InitialShuffles,
                  !.draggedItem = NoDrag,
                  !.lastMovedCardId = 0,
                  !.showStuckModal = FALSE,
                  !.isGameOver = FALSE,
                  !.endGamePhase = "idle",
                  !.speedScore = 0,
                  !.moveTimer = 0],
        newBoard)

\* The last tick of the interval of beginDeal.
beginDeal(s) == [s EXCEPT !.isDealing = FALSE]

\* An undo that takes the speed score back to 0 as well.
handleUndoClearingSpeed(s) ==
    IF Len(s.history) = 0 \/ s.isDealing \/ s.endGamePhase # "idle" THEN s
    ELSE LET prevState == s.history[Len(s.history)]
         IN  [s EXCEPT !.grid = prevState.grid,
                       !.moves = prevState.moves,
                       !.lastMovedCardId = prevState.lastMovedCardId,
                       !.history = SubSeq(s.history, 1, Len(s.history) - 1),
                       !.isWin = FALSE,
                       !.isGameOver = FALSE,
                       !.speedScore = 0]

\* An undo that asks only for a history entry.
handleUndoAtAnyTime(s) ==
    IF Len(s.history) = 0 THEN s
    ELSE LET prevState == s.history[Len(s.history)]
         IN  [s EXCEPT !.grid = prevState.grid,
                       !.moves = prevState.moves,
                       !.lastMovedCardId = prevState.lastMovedCardId,
                       !.history = SubSeq(s.history, 1, Len(s.history) - 1),
                       !.isWin = FALSE,
                       !.isGameOver = FALSE]

\* An undo that leaves the move counter as it is.
handleUndoKeepingMoves(s) ==
    IF Len(s.history) = 0 \/ s.isDealing \/ s.endGamePhase # "idle" THEN s
    ELSE LET prevState == s.history[Len(s.history)]
         IN  [s EXCEPT !.grid = prevState.grid,
                       !.lastMovedCardId = prevState.lastMovedCardId,
                       !.history = SubSeq(s.history, 1, Len(s.history) - 1),
                       !.isWin = FALSE,
                       !.isGameOver = FALSE]

handleUndo(s) ==
    IF Len(s.history) = 0 \/ s.isDealing \/ s.endGamePhase # "idle" THEN s
    ELSE LET prevState == s.history[Len(s.history)]
         IN  [s EXCEPT !.grid = prevState.grid,
                       !.moves = prevState.moves,
                       !.lastMovedCardId = prevState.lastMovedCardId,
                       !.history = SubSeq(s.history, 1, Len(s.history) - 1),
                       !.isWin = FALSE,
                       !.isGameOver = FALSE]

\* isDraggable, as App passes it to every PlayingCard.
isDraggable(s) ==
    ~s.isWin /\ ~s.isGameOver /\ ~s.isDealing /\ s.endGamePhase = "idle"

(* handleDragStart of PlayingCard, which calls handleDragStart of App       *)
(* unless the card is not draggable or is locked.                           *)
handleDragStart(s, card, rowIndex, colIndex) ==
    IF ~isDraggable(s) \/ card.id \in lockedCards(s) THEN s
    ELSE IF s.isDealing \/ s.endGamePhase # "idle" THEN s
    ELSE [s EXCEPT !.draggedItem =
            [card |-> card, rowIndex |-> rowIndex, colIndex |-> colIndex]]

handleDragEnd(s) == [s EXCEPT !.draggedItem = NoDrag]

\* A speed bonus whose bands end one tick early.
speedBonusBelow(timer) ==
    IF timer <= 0 THEN 0
    ELSE IF timer < 12 THEN 5
    ELSE IF timer < 25 THEN 10
    ELSE IF timer < 37 THEN 15
    ELSE 20

\* The speed bonus of a move made when the timer shows moveTimer.
speedBonus(timer) ==
    IF timer <= 0 THEN 0
    ELSE IF timer <= 12 THEN 5
    ELSE IF timer <= 25 THEN 10
    ELSE IF timer <= 37 THEN 15
    ELSE 20

\* A move that leaves the card at its source cell as well.
executeMoveKeepingSource(s, card, sourceRow, sourceCol, targetRow, targetCol) ==
    LET newGrid == [s.grid EXCEPT ![targetRow][targetCol] = card]
        moved ==
            [s EXCEPT !.history = Append(@, [grid |-> s.grid, moves |-> s.moves,
                                             lastMovedCardId |-> s.lastMovedCardId]),
                      !.moves = s.moves + 1,
                      !.grid = newGrid,
                      !.lastMovedCardId = card.id,
                      !.speedScore = @ + speedBonus(s.moveTimer),
                      !.moveTimer = FullTimer]
    IN  IF checkWinCondition(newGrid) THEN triggerEndGame(moved, TRUE) ELSE moved

\* A move that does not look at checkWinCondition.
executeMoveWithoutWinCheck(s, card, sourceRow, sourceCol, targetRow, targetCol) ==
    LET placed == [s.grid EXCEPT ![targetRow][targetCol] = card]
        newGrid == [placed EXCEPT ![sourceRow][sourceCol] = null]
    IN  [s EXCEPT !.history = Append(@, [grid |-> s.grid, moves |-> s.moves,
                                         lastMovedCardId |-> s.lastMovedCardId]),
                  !.moves = s.moves + 1,
                  !.grid = newGrid,
                  !.lastMovedCardId = card.id,
                  !.speedScore = @ + speedBonus(s.moveTimer),
                  !.moveTimer = FullTimer]

(* executeMove.  Both branches of isCardLocked set moves to moves + 1; the  *)
(* history entry holds the grid, moves and lastMovedCardId of the state    *)
(* the move is made in.                                                     *)
executeMove(s, card, sourceRow, sourceCol, targetRow, targetCol) ==
    LET placed == [s.grid EXCEPT ![targetRow][targetCol] = card]
        newGrid == [placed EXCEPT ![sourceRow][sourceCol] = null]
        moved ==
            [s EXCEPT !.history = Append(@, [grid |-> s.grid, moves |-> s.moves,
                                             lastMovedCardId |-> s.lastMovedCardId]),
                      !.moves = s.moves + 1,
                      !.grid = newGrid,
                      !.lastMovedCardId = card.id,
                      !.speedScore = @ + speedBonus(s.moveTimer),
                      !.moveTimer = FullTimer]
    IN  IF checkWinCondition(newGrid) THEN triggerEndGame(moved, TRUE) ELSE moved

\* A drop that puts the card into any empty cell.
handleDropAnywhere(s, targetRow, targetCol) ==
    IF s.draggedItem = NoDrag \/ s.isDealing \/ s.endGamePhase # "idle" THEN s
    ELSE LET card == s.draggedItem.card
         IN  IF card.id \in lockedCards(s) THEN [s EXCEPT !.draggedItem = NoDrag]
             ELSE IF s.grid[targetRow][targetCol] # null THEN [s EXCEPT !.draggedItem = NoDrag]
             ELSE [executeMove(s, card, s.draggedItem.rowIndex, s.draggedItem.colIndex,
                               targetRow, targetCol)
                       EXCEPT !.draggedItem = NoDrag]

handleDrop(s, targetRow, targetCol) ==
    IF s.draggedItem = NoDrag \/ s.isDealing \/ s.endGamePhase # "idle" THEN s
    ELSE LET card == s.draggedItem.card
             sourceRow == s.draggedItem.rowIndex
             sourceCol == s.draggedItem.colIndex
         IN  IF card.id \in lockedCards(s) THEN [s EXCEPT !.draggedItem = NoDrag]
             ELSE IF s.grid[targetRow][targetCol] # null THEN [s EXCEPT !.draggedItem = NoDrag]
             ELSE IF canPlaceCard(card, targetRow, targetCol, s.grid)
                  THEN [executeMove(s, card, sourceRow, sourceCol, targetRow, targetCol)
                            EXCEPT !.draggedItem = NoDrag]
                  ELSE [s EXCEPT !.draggedItem = NoDrag]

handleCardClick(s, card) ==
    IF s.isDealing \/ s.endGamePhase # "idle" THEN s
    ELSE IF card.id \in lockedCards(s) THEN s
    ELSE LET found == {p \in Positions :
                          s.grid[p[1]][p[2]] # null /\ s.grid[p[1]][p[2]].id = card.id}
             fits == {p \in Positions :
                          s.grid[p[1]][p[2]] = null /\ canPlaceCard(card, p[1], p[2], s.grid)}
         IN  IF found = {} THEN s
             ELSE IF fits = {} THEN s
             ELSE executeMove(s, card, LastIn(found)[1], LastIn(found)[2],
                              FirstIn(fits)[1], FirstIn(fits)[2])

\* onClick of PlayingCard: handleCardClick only for a draggable, unlocked card.
CardClicked(s, card) ==
    IF isDraggable(s) /\ card.id \notin lockedCards(s) THEN handleCardClick(s, card) ELSE s

handleHoleClick(s, r, c) ==
    IF s.isDealing \/ s.endGamePhase # "idle" THEN s
    ELSE IF s.grid[r][c] # null THEN s
    ELSE IF c = 0
    THEN LET twos == {p \in Positions : /\ s.grid[p[1]][p[2]] # null
                                        /\ s.grid[p[1]][p[2]].rank = TWO
                                        /\ p[2] # 0}
         IN  IF twos = {} THEN s
             ELSE LET candidate == FirstIn(twos)
                  IN  executeMove(s, s.grid[candidate[1]][candidate[2]],
                                  candidate[1], candidate[2], r, c)
    ELSE LET leftNeighbor == s.grid[r][c - 1]
         IN  IF leftNeighbor = null \/ leftNeighbor.rank = KING THEN s
             ELSE LET neededRankVal == getRankValue(leftNeighbor.rank) + 1
                      neededSuit == leftNeighbor.suit
                      cells == {p \in Positions :
                                   /\ s.grid[p[1]][p[2]] # null
                                   /\ s.grid[p[1]][p[2]].suit = neededSuit
                                   /\ getRankValue(s.grid[p[1]][p[2]].rank) = neededRankVal}
                  IN  IF cells = {} THEN s
                      ELSE executeMove(s, s.grid[FirstIn(cells)[1]][FirstIn(cells)[2]],
                                       FirstIn(cells)[1], FirstIn(cells)[2], r, c)

\* onClick of a hole: handleHoleClick only while the game is in play.
HoleClicked(s, r, c) ==
    IF isDraggable(s) THEN handleHoleClick(s, r, c) ELSE s

\* A reshuffle that leaves the undo history as it is.
handleReshuffleKeepingHistory(s, src) ==
    IF s.shufflesRemaining > 0 /\ s.endGamePhase = "idle" /\ ~s.isDealing
    THEN LET newGrid == reshuffleBoard(s.grid, src)
             dealing ==
                 startDealingSequence(
                     [s EXCEPT !.shufflesRemaining = @ - 1,
                               !.lastMovedCardId = 0,
                               !.moveTimer = 0],
                     newGrid)
         IN  IF checkWinCondition(newGrid) THEN triggerEndGame(dealing, TRUE) ELSE dealing
    ELSE s

\* A reshuffle that does not ask whether a shuffle is left.
handleReshuffleWithoutBudget(s, src) ==
    IF s.endGamePhase = "idle" /\ ~s.isDealing
    THEN LET newGrid == reshuffleBoard(s.grid, src)
             dealing ==
                 startDealingSequence(
                     [s EXCEPT !.history = <<>>,
                               !.shufflesRemaining = @ - 1,
                               !.lastMovedCardId = 0,
                               !.moveTimer = 0],
                     newGrid)
         IN  IF checkWinCondition(newGrid) THEN triggerEndGame(dealing, TRUE) ELSE dealing
    ELSE s

handleReshuffle(s, src) ==
    IF s.shufflesRemaining > 0 /\ s.endGamePhase = "idle" /\ ~s.isDealing
    THEN LET newGrid == reshuffleBoard(s.grid, src)
             dealing ==
                 startDealingSequence(
                     [s EXCEPT !.history = <<>>,
                               !.shufflesRemaining = @ - 1,
                               !.lastMovedCardId = 0,
                               !.moveTimer = 0],
                     newGrid)
         IN  IF checkWinCondition(newGrid) THEN triggerEndGame(dealing, TRUE) ELSE dealing
    ELSE s

\* A driver that goes from the flip straight to the removal.
NextPhaseWithoutWiggle(phase) ==
    CASE phase = "flipping" -> "removing"
      [] phase = "wiggling" -> "removing"
      [] phase = "removing" -> "finished"
      [] OTHER -> phase

\* The end-game animation driver: the phase that follows phase.
NextPhase(phase) ==
    CASE phase = "flipping" -> "wiggling"
      [] phase = "wiggling" -> "removing"
      [] phase = "removing" -> "finished"
      [] OTHER -> phase

---------------------------------------------------------------------------
(* Spec: the game played.  Every action is a handler followed by the       *)
(* render it causes.  The browser delivers no click while a drag is under  *)
(* way: between a drag start and its drop or drag end only timers run, so  *)
(* the actions of the buttons, cards and holes ask for PointerFree.        *)
(* Spec follows the board and the course of the game and keeps no record   *)
(* of moveTimer and speedScore, which no handler reads for anything but    *)
(* the speed score itself; SpecTimer follows them as well.                 *)

Become(s) ==
    /\ grid' = s.grid
    /\ history' = s.history
    /\ moves' = s.moves
    /\ shufflesRemaining' = s.shufflesRemaining
    /\ lastMovedCardId' = s.lastMovedCardId
    /\ isWin' = s.isWin
    /\ isGameOver' = s.isGameOver
    /\ showStuckModal' = s.showStuckModal
    /\ endGamePhase' = s.endGamePhase
    /\ isDealing' = s.isDealing
    /\ draggedItem' = s.draggedItem
    /\ UNCHANGED <<arg, ret, store, moveTimer, speedScore>>

Init ==
    /\ AppConstructed
    /\ arg = NoGrid
    /\ ret = NoCall
    /\ store = NoStore

PointerFree == draggedItem = NoDrag

(* The sources the games are dealt from: those of the designed boards and *)
(* one alternating source.                                                 *)
GameDealSources ==
    {DealSource(g) : g \in DealtBoards} \cup {[pre |-> <<>>, a |-> RandomDen - 1, b |-> 0]}

\* The boards initializeBoard returns under these sources.
NewBoards == {initializeBoard(src) : src \in GameDealSources}

\* Start Game, Restart (disabled while dealing) and the New Game buttons.
NewGame ==
    /\ PointerFree
    /\ ~isDealing
    /\ \E newBoard \in NewBoards : Become(Rendered(startNewGame(AppState, newBoard)))

FinishDeal ==
    /\ isDealing
    /\ Become(Rendered(beginDeal(AppState)))

CardClick ==
    /\ PointerFree
    /\ grid # NoGrid
    /\ moves < MaxMoves
    /\ \E p \in Positions :
          /\ grid[p[1]][p[2]] # null
          /\ Become(Rendered(CardClicked(AppState, grid[p[1]][p[2]])))

HoleClick ==
    /\ PointerFree
    /\ grid # NoGrid
    /\ moves < MaxMoves
    /\ \E p \in Positions :
          /\ grid[p[1]][p[2]] = null
          /\ Become(Rendered(HoleClicked(AppState, p[1], p[2])))

(* The cards the player picks up: every card that fits some hole, every    *)
(* locked card, and the first of the other cards (no hole takes any of     *)
(* them, so a drop of one is refused like a drop of any other).            *)
FitsSomeHole(g, card) ==
    \E p \in Positions : g[p[1]][p[2]] = null /\ canPlaceCard(card, p[1], p[2], g)

DragChoices(g) ==
    LET cards == {p \in Positions : g[p[1]][p[2]] # null}
        locked == getLockedCards(g)
        others == {p \in cards : /\ g[p[1]][p[2]].id \notin locked
                                  /\ ~FitsSomeHole(g, g[p[1]][p[2]])}
    IN  (cards \ others) \cup (IF others = {} THEN {} ELSE {FirstIn(others)})

DragStart ==
    /\ PointerFree
    /\ grid # NoGrid
    /\ moves < MaxMoves
    /\ \E p \in DragChoices(grid) :
          Become(Rendered(handleDragStart(AppState, grid[p[1]][p[2]], p[1], p[2])))

\* onDrop is a handler of the holes only.
Drop ==
    /\ grid # NoGrid
    /\ draggedItem # NoDrag
    /\ \E p \in Positions :
          /\ grid[p[1]][p[2]] = null
          /\ Become(Rendered(handleDrop(AppState, p[1], p[2])))

DragEnd ==
    /\ draggedItem # NoDrag
    /\ Become(Rendered(handleDragEnd(AppState)))

Undo ==
    /\ PointerFree
    /\ Become(Rendered(handleUndo(AppState)))

\* The Shuffle button and the button of the stuck modal.
Reshuffle ==
    /\ PointerFree
    /\ grid # NoGrid
    /\ \E src \in AlternatingSources : Become(Rendered(handleReshuffle(AppState, src)))

(* A timer of the end-game driver expires.  The removal of the cards       *)
(* starts 2 s after the flip has ended, when a deal of 2 s has finished.   *)
AdvanceEndGame ==
    /\ endGamePhase \in {"flipping", "wiggling", "removing"}
    /\ endGamePhase = "wiggling" => ~isDealing
    /\ Become(Rendered([AppState EXCEPT !.endGamePhase = NextPhase(@)]))

Next ==
    \/ NewGame
    \/ CardClick
    \/ HoleClick
    \/ DragStart
    \/ Undo
    \/ Reshuffle
    \/ Drop
    \/ DragEnd
    \/ FinishDeal
    \/ AdvanceEndGame

Spec == Init /\ [][Next]_vars

---------------------------------------------------------------------------
(* Properties of the game (checked under Spec).                            *)

HolesWithStatus(g, statuses) ==
    {p \in Holes(g) : getHoleStatus(g, p[1], p[2]) \in statuses}

\* C13: canPlaceCard refuses every card at every gap that getHoleStatus
\* calls dead or inactive; a gap right of a King takes no card, the Ace of
\* the King's suit included.
C13_DeadOrInactiveTakesNothing ==
    ret.fn = "canPlaceCard" =>
        \A p \in HolesWithStatus(arg, {"dead", "inactive"}) :
            \A card \in AllCards : <<card, p[1], p[2]>> \notin ret.value

\* C13 witness: canPlaceCard was asked on a grid with a gap right of a King,
\* a dead gap right of a gap and an inactive gap.
C13_Witness ==
    /\ ret.fn = "canPlaceCard"
    /\ \E p \in HolesWithStatus(arg, {"dead"}) : arg[p[1]][p[2] - 1].rank = KING
    /\ \E p \in HolesWithStatus(arg, {"dead"}) : arg[p[1]][p[2] - 1] = null
    /\ HolesWithStatus(arg, {"inactive"}) # {}

---------------------------------------------------------------------------
(* Steps of the game, told apart by what they change.                      *)

\* A new game is dealt: the only step that starts a deal with a full budget.
NewGameStep ==
    ~isDealing /\ isDealing' /\ shufflesRemaining' = InitialShuffles

\* A reshuffle is performed: the only step that lowers shufflesRemaining.
ReshuffleStep == shufflesRemaining' < shufflesRemaining

\* A move is executed: the only step that lengthens history.
MoveStep == Len(history') = Len(history) + 1

\* An undo is performed: the only step that shortens history and deals nothing.
UndoStep == Len(history') < Len(history) /\ isDealing' = isDealing

\* Every card locked in g holds its cell in h and is locked there.
LockedStay(g, h) ==
    \/ h = g
    \/ \A lockedG \in {getLockedCards(g)} : \A lockedH \in {getLockedCards(h)} :
          \A p \in CardCells(g) :
              g[p[1]][p[2]].id \in lockedG =>
                  /\ h[p[1]][p[2]] = g[p[1]][p[2]]
                  /\ g[p[1]][p[2]].id \in lockedH

DeadGaps(g) ==
    {p \in Holes(g) : p[2] > 0 /\ getHoleStatus(g, p[1], p[2]) = "dead"}

\* The nearest card left of cell p in its row (for a dead gap, its King).
NearestLeft(g, p) ==
    LET cardsLeft == {i \in 0 .. (p[2] - 1) : g[p[1]][i] # null}
    IN  g[p[1]][CHOOSE i \in cardsLeft : \A k \in cardsLeft : k <= i]

Fillable(g, p) ==
    \E locked \in {getLockedCards(g)} :
        \E q \in CardCells(g) :
            /\ g[q[1]][q[2]].id \notin locked
            /\ canPlaceCard(g[q[1]][q[2]], p[1], p[2], g)

\* A legal move exists on g: some gap is fillable.
LegalMoveExists(g) == \E p \in Holes(g) : Fillable(g, p)

\* C14: on every board of the game a gap is active exactly when some card
\* that is not locked may be placed there; areAllHolesDead is true exactly
\* when no legal move exists; and the 'Shuffle Required' prompt is not shown
\* while a legal move exists.
C14_ActiveIffFillable ==
    grid # NoGrid =>
        /\ \A p \in Holes(grid) :
              (getHoleStatus(grid, p[1], p[2]) = "active") <=> Fillable(grid, p)
        /\ areAllHolesDead(grid) <=> ~LegalMoveExists(grid)
        /\ showStuckModal => ~LegalMoveExists(grid)

\* C14 witness: a board in play with an active gap at column 0, an active
\* gap beyond it, and a gap that is not active.
C14_Witness ==
    /\ grid # NoGrid
    /\ ~isDealing
    /\ \E p \in HolesWithStatus(grid, {"active"}) : p[2] = 0 /\ Fillable(grid, p)
    /\ \E p \in HolesWithStatus(grid, {"active"}) : p[2] > 0 /\ Fillable(grid, p)
    /\ HolesWithStatus(grid, {"dead", "inactive"}) # {}

\* The game is in play: a board is dealt, the deal has finished, the game is
\* not won and the end-game sequence has not started.
InPlay ==
    /\ grid # NoGrid
    /\ ~isDealing
    /\ ~isWin
    /\ endGamePhase = "idle"

\* C15 as stated: whenever the game is in play on a board that is stuck (and
\* not solved), shuffles remain and the reshuffle prompt is shown; with no
\* shuffle left the game has gone to game over and is no longer in play.
C15_StuckGetsResponse ==
    (InPlay /\ areAllHolesDead(grid) /\ ~checkWinCondition(grid)) =>
        (shufflesRemaining > 0 /\ ShuffleRequiredShown(AppState))

\* C16: a move or a reshuffle that produces a grid on which
\* checkWinCondition is true puts the game into the won state (isWin, not
\* isGameOver, end-game sequence started) although that grid has no active
\* gap; and a won game stays won, never game over and never with the
\* reshuffle prompt, until a new game is dealt.
C16_WinIsEnteredAndKept ==
    [][/\ ((MoveStep \/ ReshuffleStep) /\ checkWinCondition(grid')) =>
              /\ areAllHolesDead(grid')
              /\ isWin'
              /\ ~isGameOver'
              /\ endGamePhase' = "flipping"
              /\ ~showStuckModal'
       /\ (isWin /\ ~NewGameStep) =>
              /\ isWin'
              /\ ~isGameOver'
              /\ ~showStuckModal'
              /\ endGamePhase' # "idle"
              /\ grid' = grid]_vars

\* C16 witness: a game won by a move whose end-game sequence has run to its end.
C16_Witness ==
    /\ isWin
    /\ endGamePhase = "finished"
    /\ history # <<>>
    /\ checkWinCondition(grid)
    /\ areAllHolesDead(grid)

\* What the handlers that set shufflesRemaining make of it in this state:
\* startNewGame sets it to 2; handleReshuffle lowers it by one when it acts
\* (shuffles left, phase idle, no deal under way) and otherwise changes
\* nothing at all.
BudgetHandlers ==
    /\ \A newBoard \in NewBoards :
          startNewGame(AppState, newBoard).shufflesRemaining = 2
    /\ grid # NoGrid =>
          \A src \in AlternatingSources :
              IF shufflesRemaining > 0 /\ endGamePhase = "idle" /\ ~isDealing
              THEN /\ handleReshuffle(AppState, src).shufflesRemaining = shufflesRemaining - 1
                   /\ handleReshuffle(AppState, src).isDealing
              ELSE handleReshuffle(AppState, src) = AppState

\* C17: shufflesRemaining is 2 at the start of every game, is never
\* negative, goes down by exactly 1 with each performed reshuffle and
\* changes in no other way within a game; a reshuffle asked for at 0 changes
\* nothing.
C17_ShuffleBudget ==
    /\ [](shufflesRemaining \in 0 .. 2 /\ BudgetHandlers)
    /\ [][\/ shufflesRemaining' = shufflesRemaining
          \/ shufflesRemaining' = shufflesRemaining - 1 /\ isDealing' /\ moves' = moves
          \/ shufflesRemaining' = 2 /\ isDealing' /\ moves' = 0]_vars

\* C17 witness: a game in play whose two reshuffles have been made.
C17_Witness ==
    /\ grid # NoGrid
    /\ shufflesRemaining = 0
    /\ ~isDealing
    /\ endGamePhase = "idle"

---------------------------------------------------------------------------
(* SpecStore: grids as arrays in memory.  store.objects is the heap: the   *)
(* object at address a is store.objects[a], either a row (Cols -> cell) or *)
(* an outer array (Rows -> address of a row).  store.grid is the reference *)
(* the App holds in grid, store.history the references its history entries *)
(* hold.  An engine function or a handler reads and writes through         *)
(* references as its source does.                                           *)

\* Grids allocated in one run of SpecStore (the heap is unbounded).
MaxGrids == 4

\* The grid value behind the reference ref.
GridAt(objects, ref) == [r \in Rows |-> objects[objects[ref][r]]]

\* [...grid]: a new outer array over the rows of ref themselves.
CopyGridShallow(objects, ref) ==
    [objects |-> Append(objects, objects[ref]), ref |-> Len(objects) + 1]

\* grid.map(row => [...row]): four new rows and a new outer array over them.
CopyGrid(objects, ref) ==
    LET n == Len(objects)
    IN  [objects |->
            (objects \o [k \in 1 .. NumRows |-> objects[objects[ref][k - 1]]])
                \o <<[r \in Rows |-> n + 1 + r]>>,
         ref |-> n + NumRows + 1]

\* The assignments row[c] = v[c] for the columns lo .. hi, one cell each.
RECURSIVE WriteCells(_, _, _, _)
WriteCells(row, v, lo, hi) ==
    IF hi < lo THEN row
    ELSE IF hi = lo THEN [row EXCEPT ![lo] = v[lo]]
    ELSE LET mid == (lo + hi) \div 2
         IN  WriteCells(WriteCells(row, v, lo, mid), v, mid + 1, hi)

\* The assignments newGrid[r][c] = v that leave the rows of ref holding g.
WriteGrid(objects, ref, g) ==
    [objects EXCEPT ![objects[ref][0]] = WriteCells(@, g[0], 0, NumCols - 1),
                    ![objects[ref][1]] = WriteCells(@, g[1], 0, NumCols - 1),
                    ![objects[ref][2]] = WriteCells(@, g[2], 0, NumCols - 1),
                    ![objects[ref][3]] = WriteCells(@, g[3], 0, NumCols - 1)]

\* reshuffleBoard on references: the copy, then steps 1 to 4 written into it.
reshuffleBoardOnStore(objects, currentGrid, src) ==
    LET copy == CopyGrid(objects, currentGrid)
    IN  [objects |-> WriteGrid(copy.objects, copy.ref,
                               reshuffleBoard(GridAt(copy.objects, copy.ref), src)),
         ref |-> copy.ref]

\* executeMove on references: history keeps grid, the two writes go to the copy.
executeMoveOnStore(st, card, sourceRow, sourceCol, targetRow, targetCol) ==
    LET copy == CopyGrid(st.objects, st.grid)
        held == GridAt(copy.objects, copy.ref)
        placed == [held EXCEPT ![targetRow][targetCol] = card]
        newGrid == [placed EXCEPT ![sourceRow][sourceCol] = null]
    IN  [objects |-> WriteGrid(copy.objects, copy.ref, newGrid),
         grid |-> copy.ref,
         history |-> Append(st.history, st.grid)]

\* handleReshuffle on references: setHistory([]), setGrid(newGrid).
handleReshuffleOnStore(st, src) ==
    LET made == reshuffleBoardOnStore(st.objects, st.grid, src)
    IN  [objects |-> made.objects, grid |-> made.ref, history |-> <<>>]

\* handleUndo on references: setGrid(prevState.grid), history without its last entry.
handleUndoOnStore(st) ==
    IF Len(st.history) = 0 THEN st
    ELSE [st EXCEPT !.grid = st.history[Len(st.history)],
                    !.history = SubSeq(st.history, 1, Len(st.history) - 1)]

\* The store that holds the dealt board g and nothing else.
StoreOf(g) ==
    [objects |-> [k \in 1 .. NumRows |-> g[k - 1]] \o <<[r \in Rows |-> r + 1]>>,
     grid |-> NumRows + 1,
     history |-> <<>>]

InitStore ==
    /\ AppConstructed
    /\ arg = NoGrid
    /\ ret = NoCall
    /\ store \in {StoreOf(g) : g \in DealtBoards}

RoomInStore == Len(store.objects) < MaxGrids * (NumRows + 1)

\* A legal move of a card that is not locked, made by executeMove.
StoreMove ==
    /\ RoomInStore
    /\ LET g == GridAt(store.objects, store.grid)
       IN  \E from \in CardCells(g) : \E to \in Holes(g) :
               /\ g[from[1]][from[2]].id \notin getLockedCards(g)
               /\ canPlaceCard(g[from[1]][from[2]], to[1], to[2], g)
               /\ store' = executeMoveOnStore(store, g[from[1]][from[2]],
                                              from[1], from[2], to[1], to[2])
    /\ UNCHANGED <<arg, ret, gameVars>>

\* handleReshuffle: the reshuffle, then its call of checkWinCondition(newGrid).
StoreReshuffle ==
    /\ RoomInStore
    /\ \E src \in AlternatingSources :
          LET after == handleReshuffleOnStore(store, src)
          IN  /\ ret' = [fn |-> "checkWinCondition",
                         value |-> checkWinCondition(GridAt(after.objects, after.grid)),
                         free |-> <<>>]
              /\ store' = after
    /\ UNCHANGED <<arg, gameVars>>

StoreUndo ==
    /\ store.history # <<>>
    /\ store' = handleUndoOnStore(store)
    /\ UNCHANGED <<arg, ret, gameVars>>

(* canPlaceCard, checkWinCondition, calculateScore or getLockedCards is    *)
(* called on the grid: each reads cells and assigns to none.               *)
StoreQuery ==
    /\ \E g \in {GridAt(store.objects, store.grid)} :
          \/ ret' = [fn |-> "canPlaceCard",
                     value |-> {t \in AllCards \X Holes(g) :
                                   canPlaceCard(t[1], t[2][1], t[2][2], g)},
                     free |-> <<>>]
          \/ ret' = [fn |-> "checkWinCondition", value |-> checkWinCondition(g),
                     free |-> <<>>]
          \/ ret' = [fn |-> "calculateScore", value |-> calculateScore(g), free |-> <<>>]
          \/ ret' = [fn |-> "getLockedCards", value |-> getLockedCards(g), free |-> <<>>]
    /\ UNCHANGED <<arg, store, gameVars>>

NextStore ==
    \/ StoreMove
    \/ StoreReshuffle
    \/ StoreUndo
    \/ StoreQuery

SpecStore == InitStore /\ [][NextStore]_vars

\* The addresses of the outer array ref and of its rows.
ArraysOf(objects, ref) == {ref} \cup {objects[ref][r] : r \in Rows}

\* C18: no operation alters an array that exists when it starts: the grid
\* handed to reshuffleBoard or to executeMove and every grid held by history
\* read cell for cell as before, the four queries change nothing, and the
\* grid a move or a reshuffle returns shares no array with any earlier grid.
C18_EarlierGridsAreNeverAltered ==
    [][/\ \A a \in DOMAIN store.objects :
              a \in DOMAIN store'.objects /\ store'.objects[a] = store.objects[a]
       /\ GridAt(store'.objects, store.grid) = GridAt(store.objects, store.grid)
       /\ \A k \in 1 .. Len(store.history) :
              GridAt(store'.objects, store.history[k])
                  = GridAt(store.objects, store.history[k])
       /\ Len(store'.objects) > Len(store.objects) =>
              ArraysOf(store'.objects, store'.grid) \cap DOMAIN store.objects = {}]_vars

\* C18 witness: two moves made after a reshuffle; history holds the grid the
\* reshuffle returned and the grid of the first move, both different from
\* the grid now.
C18_Witness ==
    /\ Len(store.history) = 2
    /\ Len(store.objects) = MaxGrids * (NumRows + 1)
    /\ GridAt(store.objects, store.history[1]) # GridAt(store.objects, store.history[2])
    /\ GridAt(store.objects, store.history[2]) # GridAt(store.objects, store.grid)

---------------------------------------------------------------------------
(* Scores and locks of complete rows (checked under SpecRules).            *)

\* row is TWO, THREE, ..., KING of one suit followed by a gap at column 12.
CompleteRun(row) ==
    /\ row[NumCols - 1] = null
    /\ \A i \in 0 .. (NumCols - 2) :
          /\ row[i] # null
          /\ row[i].suit = row[0].suit
          /\ row[i].rank = RANKS[i + 1]

\* The rank sum 2 + 3 + ... of a locked prefix of n cards.
PrefixRankSum(n) == (n * (n + 3)) \div 2

\* What row is to add to the score: 90 if complete, else its prefix's rank sum.
RowScoreDue(row) ==
    IF CompleteRun(row) THEN 90 ELSE PrefixRankSum(RunLength(row))

\* What row is to add to the locked ids: its 12 cards if complete, else its prefix.
RowLocksDue(row) ==
    IF CompleteRun(row) THEN {row[c].id : c \in 0 .. (NumCols - 2)}
    ELSE {row[c].id : c \in 0 .. (RunLength(row) - 1)}

\* C19: on a grid with a row TWO..KING of one suit and a gap at column 12,
\* calculateScore is the sum of 90 for each such row and of the rank sum of
\* the locked prefix of each other row, and getLockedCards is the 12 ids of
\* each such row together with the ids of the locked prefix of each other row.
C19_CompleteRowGives90And12Ids ==
    (arg # NoGrid /\ \E r \in Rows : CompleteRun(arg[r])) =>
        /\ ret.fn = "calculateScore" =>
               ret.value = RowScoreDue(arg[0]) + RowScoreDue(arg[1])
                               + RowScoreDue(arg[2]) + RowScoreDue(arg[3])
        /\ ret.fn = "getLockedCards" =>
               /\ ret.value = UNION {RowLocksDue(arg[r]) : r \in Rows}
               /\ \A r \in Rows :
                      CompleteRun(arg[r]) =>
                          Cardinality(ret.value \cap {arg[r][c].id : c \in Cols}) = 12

\* C19 witness: calculateScore answered on a grid with exactly one complete
\* row, a row with a shorter locked prefix and a row that starts with a card
\* other than a TWO.
C19_Witness ==
    /\ ret.fn = "calculateScore"
    /\ ret.value > 90
    /\ Cardinality({r \in Rows : CompleteRun(arg[r])}) = 1
    /\ \E r \in Rows : RunLength(arg[r]) \in 1 .. (NumCols - 2)
    /\ \E r \in Rows : arg[r][0] # null /\ arg[r][0].rank # TWO

---------------------------------------------------------------------------
(* Rank values (checked under SpecRules).                                  *)

\* The ranks in rising order, by their names in enum Rank.
RanksInOrder ==
    <<Rank.TWO, Rank.THREE, Rank.FOUR, Rank.FIVE, Rank.SIX, Rank.SEVEN, Rank.EIGHT,
      Rank.NINE, Rank.TEN, Rank.JACK, Rank.QUEEN, Rank.KING, Rank.ACE>>

\* The place of rank in RanksInOrder, counted from 1.
PlaceInOrder(rank) == CHOOSE k \in 1 .. Len(RanksInOrder) : RanksInOrder[k] = rank

\* C20: getRankValue gives TWO, THREE, ..., KING, ACE the values 2, 3, ..., 14
\* in that order; two ranks have the same value only if they are the same
\* rank, and one rank follows another in the order exactly if its value is
\* the other's plus 1.
C20_RankValuesAre2To14InOrder ==
    ret.fn = "getRankValue" =>
        /\ ret.free[1] \in {RanksInOrder[k] : k \in 1 .. 13}
        /\ ret.value[1] = PlaceInOrder(ret.free[1]) + 1
        /\ ret.value[1] \in 2 .. 14
        /\ (ret.value[1] = ret.value[2]) <=> (ret.free[1] = ret.free[2])
        /\ (ret.value[2] = ret.value[1] + 1)
               <=> (PlaceInOrder(ret.free[2]) = PlaceInOrder(ret.free[1]) + 1)

\* C20 witness: getRankValue answered 13 for KING and 14 for ACE.
C20_Witness ==
    /\ ret.fn = "getRankValue"
    /\ ret.free = <<Rank.KING, Rank.ACE>>
    /\ ret.value = <<13, 14>>

---------------------------------------------------------------------------
(* SpecDeal: the dealing loop of initializeBoard on a deck of any count.   *)
(* generateDeck gives 52 cards; the decks of another count are a shuffled  *)
(* deck cut short and a shuffled deck with cards added at its end.         *)

\* Cards added to a deck beyond its 52.
MaxExtraCards == 1

\* The k-th added card: a further copy of the k-th card under a new id.
ExtraCard(k) == [generateDeck[k] EXCEPT !.id = Len(generateDeck) + k]

ShuffledDecks == {shuffleDeck(generateDeck, src) : src \in DealSources}

DealDecks ==
    {SubSeq(deck, 1, n) : deck \in ShuffledDecks, n \in 0 .. Len(generateDeck)}
        \cup {deck \o [k \in 1 .. x |-> ExtraCard(k)] :
                  deck \in ShuffledDecks, x \in 1 .. MaxExtraCards}

InitDeal ==
    /\ AppConstructed
    /\ arg \in DealDecks
    /\ ret = NoCall
    /\ store = NoStore

\* The loop of initializeBoard run on the deck arg.
CallDealFrom ==
    /\ ret.fn = "none"
    /\ ret' = [fn |-> "DealFrom", value |-> DealFrom(arg), free |-> <<>>]
    /\ UNCHANGED <<arg, gameVars, store>>

NextDeal == CallDealFrom

SpecDeal == InitDeal /\ [][NextDeal]_vars

---------------------------------------------------------------------------
(* Moves, refusals and undo (checked under Spec).                          *)

(* h is g after the card with this id, not locked in g, has gone from its  *)
(* cell to a gap of g that canPlaceCard accepts for it.                    *)
IsLegalMoveOf(g, h, id) ==
    \E locked \in {getLockedCards(g)} :
        \E p \in CardCells(g) :
            /\ g[p[1]][p[2]].id = id
            /\ id \notin locked
            /\ \E q \in Holes(g) :
                  /\ canPlaceCard(g[p[1]][p[2]], q[1], q[2], g)
                  /\ h = [g EXCEPT ![q[1]][q[2]] = g[p[1]][p[2]], ![p[1]][p[2]] = null]

---------------------------------------------------------------------------
(* SpecTimer: the game played with the move timer running.  The actions    *)
(* are those of Spec, and the state they leave includes moveTimer and the  *)
(* speed score; Tick is the timeout of the timer bar.                      *)

\* The moves a timed game holds in its history.
MaxTimedMoves == 2

\* No move is begun once the speed score has reached this.
MaxSpeedScore == 20

BecomeTimed(s) ==
    /\ grid' = s.grid
    /\ history' = s.history
    /\ moves' = s.moves
    /\ shufflesRemaining' = s.shufflesRemaining
    /\ lastMovedCardId' = s.lastMovedCardId
    /\ isWin' = s.isWin
    /\ isGameOver' = s.isGameOver
    /\ showStuckModal' = s.showStuckModal
    /\ endGamePhase' = s.endGamePhase
    /\ isDealing' = s.isDealing
    /\ draggedItem' = s.draggedItem
    /\ moveTimer' = s.moveTimer
    /\ speedScore' = s.speedScore
    /\ UNCHANGED <<arg, ret, store>>

\* The timed games are dealt from the sources of two designed boards.
TimedBoards ==
    {initializeBoard(DealSource(NearWinBoard)), initializeBoard(DealSource(MidBoard))}

\* The timed games are reshuffled from one source.
TimedSources == {[pre |-> <<>>, a |-> 0, b |-> 0]}

MayMove == moves < MaxTimedMoves /\ speedScore < MaxSpeedScore

TimedNewGame ==
    /\ PointerFree
    /\ ~isDealing
    /\ \E newBoard \in TimedBoards : BecomeTimed(Rendered(startNewGame(AppState, newBoard)))

TimedFinishDeal ==
    /\ isDealing
    /\ BecomeTimed(Rendered(beginDeal(AppState)))

TimedCardClick ==
    /\ PointerFree
    /\ grid # NoGrid
    /\ MayMove
    /\ \E p \in Positions :
          /\ grid[p[1]][p[2]] # null
          /\ BecomeTimed(Rendered(CardClicked(AppState, grid[p[1]][p[2]])))

TimedHoleClick ==
    /\ PointerFree
    /\ grid # NoGrid
    /\ MayMove
    /\ \E p \in Positions :
          /\ grid[p[1]][p[2]] = null
          /\ BecomeTimed(Rendered(HoleClicked(AppState, p[1], p[2])))

TimedDragStart ==
    /\ PointerFree
    /\ grid # NoGrid
    /\ MayMove
    /\ \E p \in DragChoices(grid) :
          BecomeTimed(Rendered(handleDragStart(AppState, grid[p[1]][p[2]], p[1], p[2])))

TimedDrop ==
    /\ grid # NoGrid
    /\ draggedItem # NoDrag
    /\ \E p \in Positions :
          /\ grid[p[1]][p[2]] = null
          /\ BecomeTimed(Rendered(handleDrop(AppState, p[1], p[2])))

TimedDragEnd ==
    /\ draggedItem # NoDrag
    /\ BecomeTimed(Rendered(handleDragEnd(AppState)))

TimedUndo ==
    /\ PointerFree
    /\ BecomeTimed(Rendered(handleUndo(AppState)))

TimedReshuffle ==
    /\ PointerFree
    /\ grid # NoGrid
    /\ \E src \in TimedSources : BecomeTimed(Rendered(handleReshuffle(AppState, src)))

TimedAdvanceEndGame ==
    /\ endGamePhase \in {"flipping", "wiggling", "removing"}
    /\ endGamePhase = "wiggling" => ~isDealing
    /\ BecomeTimed(Rendered([AppState EXCEPT !.endGamePhase = NextPhase(@)]))

\* The timeout of the timer bar: set while moveTimer > 0, it takes 1 off.
Tick ==
    /\ moveTimer > 0
    /\ BecomeTimed([AppState EXCEPT !.moveTimer = @ - 1])

NextTimer ==
    \/ TimedNewGame
    \/ TimedCardClick
    \/ TimedHoleClick
    \/ TimedDragStart
    \/ TimedUndo
    \/ TimedReshuffle
    \/ TimedDrop
    \/ TimedDragEnd
    \/ TimedFinishDeal
    \/ TimedAdvanceEndGame
    \/ Tick

SpecTimer == Init /\ [][NextTimer]_vars

---------------------------------------------------------------------------
(* Refused attempts and the speed score (checked under SpecTimer).         *)

\* What a refused attempt has to leave as it is.
SameGame(s, t) ==
    /\ t.grid = s.grid
    /\ t.moves = s.moves
    /\ t.history = s.history
    /\ t.shufflesRemaining = s.shufflesRemaining
    /\ t.speedScore = s.speedScore

\* The drag of the card at cell p.
DragOf(g, p) == [card |-> g[p[1]][p[2]], rowIndex |-> p[1], colIndex |-> p[2]]

(* The drops to look at in state s: the drag under way onto every cell,    *)
(* and, while no drag is under way, a drag of any locked card (no drag of  *)
(* one begins through handleDragStart) onto every gap and the first card.  *)
DropAttempts(s, locked) ==
    IF s.draggedItem # NoDrag
    THEN {<<s.draggedItem, q>> : q \in Positions}
    ELSE {<<DragOf(s.grid, p), q>> :
              p \in {c \in CardCells(s.grid) : s.grid[c[1]][c[2]].id \in locked},
              q \in Holes(s.grid) \cup {FirstIn(CardCells(s.grid))}}

\* The drop of item onto cell q is one the rules refuse.
DropRefused(g, locked, item, q) ==
    \/ item.card.id \in locked
    \/ g[q[1]][q[2]] # null
    \/ ~canPlaceCard(item.card, q[1], q[2], g)

\* The click on card is one the rules refuse: it is locked or fits no gap.
CardClickRefused(g, locked, card) ==
    \/ card.id \in locked
    \/ \A q \in Holes(g) : ~canPlaceCard(card, q[1], q[2], g)

\* The click on the gap q finds no card that fits it.
HoleClickRefused(g, q) ==
    \A p \in CardCells(g) : ~canPlaceCard(g[p[1]][p[2]], q[1], q[2], g)

\* C23: a refused attempt (the dragged or clicked card is locked, the drop
\* target is occupied, canPlaceCard is false, or the clicked hole has no card
\* that fits) leaves grid, moves, history, shufflesRemaining and speedScore
\* as they are.
C23_RefusedAttemptChangesNothing ==
    grid # NoGrid =>
        \E s \in {AppState} : \E locked \in {getLockedCards(grid)} :
            /\ \A a \in DropAttempts(s, locked) :
                  DropRefused(grid, locked, a[1], a[2]) =>
                      SameGame(s, Rendered(handleDrop([s EXCEPT !.draggedItem = a[1]],
                                                      a[2][1], a[2][2])))
            /\ \A p \in CardCells(grid) :
                  CardClickRefused(grid, locked, grid[p[1]][p[2]]) =>
                      /\ SameGame(s, Rendered(CardClicked(s, grid[p[1]][p[2]])))
                      /\ SameGame(s, Rendered(handleCardClick(s, grid[p[1]][p[2]])))
            /\ \A q \in Holes(grid) :
                  HoleClickRefused(grid, q) =>
                      SameGame(s, Rendered(HoleClicked(s, q[1], q[2])))

(* C23 witness: a game in play with a speed score, a drag under way of a   *)
(* card that fits one gap and not another, a locked card, and a gap that   *)
(* no card fits.                                                           *)
C23_Witness ==
    /\ grid # NoGrid
    /\ isDraggable(AppState)
    /\ speedScore > 0
    /\ history # <<>>
    /\ draggedItem # NoDrag
    /\ \E q \in Holes(grid) : canPlaceCard(draggedItem.card, q[1], q[2], grid)
    /\ \E q \in Holes(grid) : ~canPlaceCard(draggedItem.card, q[1], q[2], grid)
    /\ getLockedCards(grid) # {}
    /\ \E q \in Holes(grid) : HoleClickRefused(grid, q)

---------------------------------------------------------------------------
(* Locks, score, undo and reshuffle along the game (checked under Spec).   *)

---------------------------------------------------------------------------
(* Undo (checked under SpecTimer, where the clock tells a game in which a  *)
(* move was taken back from one in which none was made).                   *)

\* The history entry a move made in the current state pushes.
EntryNow == [grid |-> grid, moves |-> moves, lastMovedCardId |-> lastMovedCardId]

\* State t has the grid, moves, lastMovedCardId and history given.
RestoredTo(t, g, m, id, h) ==
    t.grid = g /\ t.moves = m /\ t.lastMovedCardId = id /\ t.history = h

\* n undos, one after the other, each followed by its render.
RECURSIVE UndoTimes(_, _)
UndoTimes(s, n) == IF n = 0 THEN s ELSE UndoTimes(Rendered(handleUndo(s)), n - 1)

\* An undo in the state a step has led to brings back what the step left.
UndoBringsBack ==
    RestoredTo(Rendered(handleUndo(AppState')), grid, moves, lastMovedCardId, history)

\* The history is a stack: a step pushes the current state, pops, clears, or
\* leaves the history as it is.
HistoryIsStack ==
    \/ history' = history
    \/ history' = Append(history, EntryNow)
    \/ history # <<>> /\ history' = SubSeq(history, 1, Len(history) - 1)
    \/ history' = <<>>

\* C25 as stated: after every committed move an undo restores the grid, the
\* move counter and lastMovedCardId and removes one history entry.
C25_UndoRevertsEveryMove ==
    [][MoveStep => UndoBringsBack]_vars

\* C25: after a committed move that leaves the game in play (endGamePhase
\* idle) an undo restores grid, moves and lastMovedCardId to their values
\* before the move and removes exactly the entry the move pushed; an undo
\* step restores the top entry and pops it; the history is a stack of the
\* states the moves were made in, so that n undos after n such moves bring
\* back the grid before the first; undo with an empty history changes nothing.
C25_UndoRevertsMoveInPlay ==
    [][/\ HistoryIsStack
       /\ (MoveStep /\ endGamePhase' = "idle") =>
             /\ history' = Append(history, EntryNow)
             /\ UndoBringsBack
       /\ UndoStep =>
             /\ history # <<>>
             /\ RestoredTo(AppState', history[Len(history)].grid,
                           history[Len(history)].moves,
                           history[Len(history)].lastMovedCardId,
                           SubSeq(history, 1, Len(history) - 1))
       /\ (history' # <<>> /\ endGamePhase' = "idle" /\ ~isDealing') =>
             RestoredTo(UndoTimes(AppState', Len(history')), history'[1].grid,
                        history'[1].moves, history'[1].lastMovedCardId, <<>>)
       /\ history' = <<>> => Rendered(handleUndo(AppState')) = AppState']_vars

(* C25 witness: both moves of a game have been taken back (the timer has   *)
(* been started and a speed bonus earned, and no move stands).             *)
C25_Witness ==
    /\ grid # NoGrid
    /\ history = <<>>
    /\ moves = 0
    /\ speedScore > 0
    /\ shufflesRemaining = InitialShuffles

---------------------------------------------------------------------------
(* Reshuffle and the undo history (checked under Spec).                    *)

\* The states undo can restore, oldest first, and then the state in play.
StatesSinceHistoryBegan == Append(history, EntryNow)

(* Each state of the sequence comes from the one before it by one legal    *)
(* move, of the card it names as the last one moved.                       *)
MovesOnly(states) ==
    \A i \in 1 .. Len(states) - 1 :
        IsLegalMoveOf(states[i].grid, states[i + 1].grid, states[i + 1].lastMovedCardId)

\* C26: a reshuffle clears the undo history, so that an undo after it has no
\* effect; the history stays empty until a move is made; the grids undo can
\* restore lead to the grid in play by moves alone, with no reshuffle
\* between them; and no undo changes shufflesRemaining.
C26_ReshuffleClearsHistory ==
    [][/\ ReshuffleStep =>
             /\ history' = <<>>
             /\ Rendered(handleUndo(AppState')) = AppState'
       /\ (history = <<>> /\ history' # <<>>) => (MoveStep /\ ~ReshuffleStep)
       /\ (history' # <<>> /\ (history' # history \/ grid' # grid)) =>
             MovesOnly(StatesSinceHistoryBegan')
       /\ UndoStep => shufflesRemaining' = shufflesRemaining
       /\ handleUndo(AppState').shufflesRemaining = shufflesRemaining']_vars

(* C26 witness: a move was made, then a reshuffle, then one move: the only *)
(* history entry holds the reshuffled grid.                                *)
C26_Witness ==
    /\ grid # NoGrid
    /\ shufflesRemaining < InitialShuffles
    /\ Len(history) = 1
    /\ moves = 2
    /\ Rendered(handleUndo(AppState)).history = <<>>
    /\ Rendered(handleUndo(AppState)).grid # grid

---------------------------------------------------------------------------
(* The end of the game (checked under Spec).                               *)

\* No card of g fits any gap of g.
NoMoveLeft(g) ==
    \A p \in CardCells(g) : \A q \in Holes(g) : ~canPlaceCard(g[p[1]][p[2]], q[1], q[2], g)

\* C27: whenever isGameOver becomes true, and for as long as it is true, the
\* board has no active gap (and so no card fits a gap), shufflesRemaining is
\* 0 and checkWinCondition is false for the grid.
C27_GameOverIsARealLoss ==
    isGameOver =>
        /\ grid # NoGrid
        /\ HolesWithStatus(grid, {"active"}) = {}
        /\ NoMoveLeft(grid)
        /\ shufflesRemaining = 0
        /\ ~checkWinCondition(grid)

\* C27 witness: the game has been declared over.
C27_Witness ==
    /\ isGameOver
    /\ ~isWin
    /\ endGamePhase # "idle"
    /\ moves > 0

---------------------------------------------------------------------------
(* Play without undo comes to an end (checked under Spec).                 *)

\* The card at cell p is in place: a TWO in column 0, or any other card
\* right of the card it follows in its suit.
InPlace(g, p) ==
    IF g[p[1]][p[2]].rank = TWO THEN p[2] = 0
    ELSE /\ p[2] > 0
         /\ g[p[1]][p[2] - 1] # null
         /\ g[p[1]][p[2] - 1].suit = g[p[1]][p[2]].suit
         /\ getRankValue(g[p[1]][p[2]].rank) = getRankValue(g[p[1]][p[2] - 1].rank) + 1

\* What the cell with flat index i adds to the budget: nothing for a gap or
\* a card in place, and more for a card the lower its rank.
CellBudget(g, i) ==
    LET r == i \div NumCols
        c == i % NumCols
    IN  IF g[r][c] = null \/ InPlace(g, <<r, c>>) THEN 0
        ELSE getRankValue(KING) + 1 - getRankValue(g[r][c].rank)

RECURSIVE BudgetOfCells(_, _, _)
BudgetOfCells(g, lo, hi) ==
    IF lo = hi THEN CellBudget(g, lo)
    ELSE LET mid == (lo + hi) \div 2
         IN  BudgetOfCells(g, lo, mid) + BudgetOfCells(g, mid + 1, hi)

(* A bound on the moves still to come on g: a move takes a card that is    *)
(* not in place and puts it in place, and takes at most the next card of   *)
(* its suit out of place.                                                  *)
MoveBudget(g) == BudgetOfCells(g, 0, NumRows * NumCols - 1)

---------------------------------------------------------------------------
(* SpecBoards: checkWinCondition, getLockedCards and calculateScore called *)
(* on one and the same valid board.                                        *)

\* The cells rotated among themselves in the rotated boards are moved by up
\* to this many places.
MaxShift == 2

\* WinBoard with the cells of column c in rows r1 and r2 exchanged.
CrossExchanged(r1, r2, c) ==
    [WinBoard EXCEPT ![r1][c] = WinBoard[r2][c], ![r2][c] = WinBoard[r1][c]]

\* WinBoard with the rows r1 and r2 exchanged: another solved board.
RowsExchanged(r1, r2) ==
    [WinBoard EXCEPT ![r1] = WinBoard[r2], ![r2] = WinBoard[r1]]

(* Valid boards: the designed boards, the solved board with two cells of   *)
(* a row or of a column exchanged (two cards, or a card and the gap) or    *)
(* with two rows exchanged, and boards with runs of several lengths in     *)
(* place and the rest rotated.                                             *)
ValidBoards ==
    DealtBoards
        \cup {Exchanged(r, c1, c2) : r \in Rows, c1 \in Cols, c2 \in Cols}
        \cup {CrossExchanged(r1, r2, c) : r1 \in Rows, r2 \in Rows, c \in Cols}
        \cup {RowsExchanged(r1, r2) : r1 \in Rows, r2 \in Rows}
        \cup {Rotated(<<a, b, 7, 12>>, shift) :
                  a \in {0, 3, 12}, b \in {0, 12}, shift \in 1 .. MaxShift}

InitBoards ==
    /\ AppConstructed
    /\ arg \in ValidBoards
    /\ ret = NoCall
    /\ store = NoStore

\* The three functions are called on the grid, which none of them changes.
CallWinLockedScore ==
    /\ ret.fn = "none"
    /\ ret' = [fn |-> "winLockedScore",
               value |-> [win |-> checkWinCondition(arg),
                          locked |-> getLockedCards(arg),
                          score |-> calculateScore(arg)],
               free |-> <<>>]
    /\ UNCHANGED <<arg, gameVars, store>>

NextBoards == CallWinLockedScore

SpecBoards == InitBoards /\ [][NextBoards]_vars

\* The ids of the cards on g.
IdsOn(g) == {g[p[1]][p[2]].id : p \in CardCells(g)}

\* C29: on every valid board (each non-Ace card once, 4 gaps)
\* checkWinCondition is true exactly when all 48 cards are in
\* getLockedCards, and exactly when calculateScore is 360; calculateScore is
\* never below 0 or above 360.
C29_WinIffAllLockedIffScore360 ==
    (ret.fn = "winLockedScore" /\ IsDealtBoard(arg)) =>
        /\ ret.value.win <=> (IdsOn(arg) \subseteq ret.value.locked
                                 /\ Cardinality(ret.value.locked) = 48)
        /\ ret.value.win <=> ret.value.score = 360
        /\ 0 <= ret.value.score
        /\ ret.value.score <= 360

(* C29 witness: the functions were called on a valid board that is one     *)
(* exchange of two cards away from the solved board: not won, some of the  *)
(* cards locked, a score below 360.                                        *)
C29_Witness ==
    /\ ret.fn = "winLockedScore"
    /\ IsDealtBoard(arg)
    /\ \E r \in Rows : \E c \in Cols : c < NumCols - 2 /\ arg = Exchanged(r, c, c + 1)
    /\ ~ret.value.win
    /\ Cardinality(ret.value.locked) > 36
    /\ ret.value.score > 270
    /\ ret.value.score < 360

---------------------------------------------------------------------------
(* Win and game over (checked under Spec).                                 *)

\* C30: isWin and isGameOver are never both true, and either of them is true
\* only while endGamePhase is not idle.
C30_WinAndGameOverExcludeEachOther ==
    /\ ~(isWin /\ isGameOver)
    /\ (isWin \/ isGameOver) => endGamePhase # "idle"

(* C30 witness: the game is over and lost, with the end-game sequence past *)
(* its first phase.                                                        *)
C30_Witness ==
    /\ isGameOver
    /\ ~isWin
    /\ endGamePhase \in {"wiggling", "removing", "finished"}

---------------------------------------------------------------------------
(* SpecFair: the game played, with the timers of the program firing: the   *)
(* interval of beginDeal ends the deal and the intervals and the timeout   *)
(* of the end-game driver move the sequence on.  The player is under no    *)
(* obligation to act.                                                      *)

SpecFair ==
    /\ Init
    /\ [][Next]_vars
    /\ WF_vars(FinishDeal)
    /\ WF_vars(AdvanceEndGame)

\* What a step may do to endGamePhase.
PhaseStepInOrder ==
    endGamePhase' # endGamePhase =>
        \/ endGamePhase' = "idle" /\ NewGameStep
        \/ <<endGamePhase, endGamePhase'>> \in
               {<<"idle", "flipping">>, <<"flipping", "wiggling">>,
                <<"wiggling", "removing">>, <<"removing", "finished">>}

\* In the state a step leads to, a trigger finds the sequence started and
\* changes nothing.
SecondTriggerIdle ==
    endGamePhase' # "idle" =>
        \A win \in BOOLEAN : triggerEndGame(AppState', win) = AppState'

\* C31 as stated, as far as it promises an end: a sequence that has started
\* reaches finished.
C31_StartedSequenceFinishes ==
    (endGamePhase = "flipping") ~> (endGamePhase = "finished")

\* C31: endGamePhase changes only idle -> flipping -> wiggling -> removing ->
\* finished, and back to idle only by the start of a new game; a trigger
\* while the phase is not idle changes nothing; and a sequence that has
\* started reaches finished unless a new game is started before.
C31_EndGameRunsOnceInOrder ==
    /\ [][PhaseStepInOrder /\ SecondTriggerIdle]_vars
    /\ (endGamePhase # "idle") ~> (endGamePhase \in {"finished", "idle"})

\* C31 witness: a game was won and its end-game sequence has run to the end.
C31_Witness ==
    /\ endGamePhase = "finished"
    /\ isWin
    /\ moves > 0

---------------------------------------------------------------------------
(* The handlers during a deal and during the end-game sequence (checked    *)
(* under Spec).                                                            *)

\* What the handlers have to leave as it is during a deal or the sequence.
SameBoard(s, t) ==
    /\ t.grid = s.grid
    /\ t.moves = s.moves
    /\ t.history = s.history
    /\ t.shufflesRemaining = s.shufflesRemaining

\* C32: while a deal is in progress or the end-game sequence has started,
\* a drop (of any card onto any cell), a click on any card, a click on any
\* cell as a hole, an undo and a reshuffle leave grid, moves, history and
\* shufflesRemaining as they are.
C32_NoPlayWhileDealingOrEnding ==
    (grid # NoGrid /\ (isDealing \/ endGamePhase # "idle")) =>
        \E s \in {AppState} :
            /\ \A q \in Positions :
                  /\ SameBoard(s, Rendered(handleDrop(s, q[1], q[2])))
                  /\ SameBoard(s, Rendered(handleHoleClick(s, q[1], q[2])))
                  /\ SameBoard(s, Rendered(HoleClicked(s, q[1], q[2])))
                  /\ \A p \in CardCells(grid) :
                        SameBoard(s, Rendered(handleDrop(
                            [s EXCEPT !.draggedItem = DragOf(grid, p)], q[1], q[2])))
            /\ \A p \in CardCells(grid) :
                  /\ SameBoard(s, Rendered(handleCardClick(s, grid[p[1]][p[2]])))
                  /\ SameBoard(s, Rendered(CardClicked(s, grid[p[1]][p[2]])))
            /\ SameBoard(s, Rendered(handleUndo(s)))
            /\ \A src \in AlternatingSources :
                  SameBoard(s, Rendered(handleReshuffle(s, src)))

(* C32 witness: the end-game sequence of a won game is running while the   *)
(* history holds a move to undo and a shuffle is left.                     *)
C32_Witness ==
    /\ grid # NoGrid
    /\ endGamePhase = "wiggling"
    /\ isWin
    /\ history # <<>>
    /\ shufflesRemaining > 0

---------------------------------------------------------------------------
(* SpecDrag: the game played with nothing to keep a handler from running   *)
(* between a drag start and its drop.  Nothing in App does: draggedItem is *)
(* set by handleDragStart and cleared by handleDrop, handleDragEnd and     *)
(* startNewGame only, and no handler asks whether a drag is under way.     *)
(* Spec, with PointerFree, is the game in a browser that delivers no       *)
(* click, context menu or key while it runs a drag.                        *)

\* The moves a game of SpecDrag holds in its history before a click or a
\* drag start; a drop may add one.
MaxDragMoves == 2

\* The games of SpecDrag are dealt from the source of one designed board.
DragBoards == {initializeBoard(DealSource(MidBoard))}

\* The games of SpecDrag are reshuffled from one source.
DragSources == {[pre |-> <<>>, a |-> 0, b |-> 0]}

NewGameAtAnyTime ==
    /\ ~isDealing
    /\ \E newBoard \in DragBoards : Become(Rendered(startNewGame(AppState, newBoard)))

CardClickAtAnyTime ==
    /\ grid # NoGrid
    /\ moves < MaxDragMoves
    /\ \E p \in Positions :
          /\ grid[p[1]][p[2]] # null
          /\ Become(Rendered(CardClicked(AppState, grid[p[1]][p[2]])))

HoleClickAtAnyTime ==
    /\ grid # NoGrid
    /\ moves < MaxDragMoves
    /\ \E p \in Positions :
          /\ grid[p[1]][p[2]] = null
          /\ Become(Rendered(HoleClicked(AppState, p[1], p[2])))

\* A drag begins only when none is under way.
DragStartEarly ==
    /\ PointerFree
    /\ grid # NoGrid
    /\ moves < MaxDragMoves
    /\ \E p \in DragChoices(grid) :
          Become(Rendered(handleDragStart(AppState, grid[p[1]][p[2]], p[1], p[2])))

UndoAtAnyTime == Become(Rendered(handleUndo(AppState)))

ReshuffleAtAnyTime ==
    /\ grid # NoGrid
    /\ \E src \in DragSources : Become(Rendered(handleReshuffle(AppState, src)))

NextDrag ==
    \/ NewGameAtAnyTime
    \/ CardClickAtAnyTime
    \/ HoleClickAtAnyTime
    \/ DragStartEarly
    \/ UndoAtAnyTime
    \/ ReshuffleAtAnyTime
    \/ Drop
    \/ DragEnd
    \/ FinishDeal
    \/ AdvanceEndGame

SpecDrag == Init /\ [][NextDrag]_vars

\* A drop commits a move: the drag ends and the history grows.
DropMoveStep == draggedItem # NoDrag /\ draggedItem' = NoDrag /\ MoveStep

\* C33: whatever has run between the drag start and the drop (undo,
\* reshuffle, new game, other moves), a drop that commits a move takes the
\* dragged card from the cell where it lies at the time of the drop, and the
\* grid after it holds every card once: no card twice, none erased.
C33_DropTakesCardFromItsCell ==
    [][DropMoveStep =>
          /\ grid[draggedItem.rowIndex][draggedItem.colIndex] # null
          /\ grid[draggedItem.rowIndex][draggedItem.colIndex].id = draggedItem.card.id
          /\ IsDealtBoard(grid')
          /\ Cardinality({grid'[p[1]][p[2]].id : p \in CardCells(grid')}) = 48]_vars

---------------------------------------------------------------------------
(* The move timer and the speed score (checked under SpecTimer).           *)

\* The bonus the claim names for a move made at timer value t.
BonusDue(t) ==
    CASE t = 0 -> 0
      [] t \in 1 .. 12 -> 5
      [] t \in 13 .. 25 -> 10
      [] t \in 26 .. 37 -> 15
      [] t \in 38 .. 50 -> 20

\* A tick: the timer goes down by 1 and nothing else of the game changes.
TickStep ==
    /\ moveTimer > 0
    /\ moveTimer' = moveTimer - 1
    /\ UNCHANGED <<grid, history, moves, shufflesRemaining, lastMovedCardId, isWin,
                   isGameOver, showStuckModal, endGamePhase, isDealing, draggedItem,
                   speedScore>>

\* C34: moveTimer stays in 0..50; every committed move sets it to 50 and adds
\* to speedScore 0, 5, 10, 15 or 20 for a timer value at the move of 0,
\* 1..12, 13..25, 26..37 or 38..50; a reshuffle and a new game set it to 0;
\* and every other change of it is a tick that takes 1 off a value above 0.
C34_TimerStaysInRangeAndPaysBonus ==
    [][/\ moveTimer \in 0 .. 50
       /\ moveTimer' \in 0 .. 50
       /\ MoveStep => (moveTimer' = 50 /\ speedScore' = speedScore + BonusDue(moveTimer))
       /\ (ReshuffleStep \/ NewGameStep) => moveTimer' = 0
       /\ (moveTimer' # moveTimer /\ ~MoveStep /\ ~ReshuffleStep /\ ~NewGameStep) => TickStep
       /\ (speedScore' > speedScore) => MoveStep]_vars

(* C34 witness: a move made at a timer value of 26..37 has earned 15, and  *)
(* the timer has then run down to 0 and stopped.                           *)
C34_Witness ==
    /\ speedScore = 15
    /\ moveTimer = 0
    /\ Len(history) = 2
    /\ shufflesRemaining = InitialShuffles

\* C35: speedScore never falls during a game: the only step that lowers it
\* is the start of a new game, which sets it to 0; an undo restores the grid
\* and the move counter of the top history entry and leaves speedScore as it
\* is, so the bonus of the move taken back is kept.
C35_SpeedScoreOnlyResetByNewGame ==
    [][/\ speedScore' < speedScore => NewGameStep
       /\ NewGameStep => speedScore' = 0
       /\ UndoStep =>
             /\ speedScore' = speedScore
             /\ grid' = history[Len(history)].grid
             /\ moves' = history[Len(history)].moves
       /\ Rendered(handleUndo(AppState')).speedScore = speedScore']_vars

(* C35 witness: every move of the game has been taken back, among them one *)
(* that earned the full bonus, which is still in the speed score after the *)
(* timer has moved on.                                                     *)
C35_Witness ==
    /\ grid # NoGrid
    /\ ~isDealing
    /\ history = <<>>
    /\ moves = 0
    /\ speedScore = 20
    /\ moveTimer < FullTimer

===========================================================================
